---- MODULE Spec2Model ----
(***************************************************************************)
(* Bookmark-PDF-app: the bookmark tree editor of frontend/src/App.jsx.     *)
(*                                                                         *)
(* The React state of App is the state of the model; every event handler   *)
(* (and every continuation of an async handler after an await) is one      *)
(* action.  Strings are sequences of one-character strings, so that trim   *)
(* and parseInt are computed and not assumed.  `null` is 0 for the         *)
(* numeric/identifier fields (file, fileId, numPages, modalParentId,       *)
(* editingId): all real values of those fields are >= 1.                   *)
(*                                                                         *)
(* The contents of the two form inputs (formTitle, formPage) are inputs of *)
(* saveModal: whatever openAddRoot/openAddChild/openEdit prefilled, the    *)
(* user can retype both before confirming.  While the Modal is open its    *)
(* backdrop (fixed inset-0, z-50) lies over the page, so the buttons and   *)
(* the drop zone under it receive no pointer events: the handlers behind   *)
(* them are guarded by ~modalOpen.  Continuations of async handlers are    *)
(* not.                                                                    *)
(*                                                                         *)
(* The server (the Express routes /api/upload and /api/process with the    *)
(* serializer sortBookmarksByPage / buildPrintedOutline) has its own       *)
(* variables.  Eight specifications share the definitions:                 *)
(*   Spec        the editor on one document;                               *)
(*   ImportSpec  selecting documents and importing their outlines;         *)
(*   SerSpec     the serializer applied to every small bookmarks array;    *)
(*   SrvSpec     the routes of the server over the files of uploads/;      *)
(*   DlSpec      upload and download requests in flight, with the editor;  *)
(*   StoreSpec   one updater of the tree store applied to every Forest;    *)
(*   SendSpec    a download request sent for every small Forest;           *)
(*   TotalSpec   the serializer applied to the arrays the editor can send. *)
(***************************************************************************)
EXTENDS Integers, Sequences, FiniteSets, TLC

VARIABLES
    file,           \* useState(null): the selected document, 0 = null
    fileId,         \* useState(null): server id of the upload, 0 = null
    numPages,       \* useState(null): page count once loaded, 0 = null
    tree,           \* useState([]): the Forest
    pageView,       \* useState(1)
    modalOpen,      \* useState(false)
    modalMode,      \* useState('addRoot'): addRoot | addChild | edit
    modalParentId,  \* useState(null)
    editingId,      \* useState(null)
    toast,          \* the toast the handler that ran last pushed with showToast
    nextId,         \* uuidv4(): the next identifier it returns
    docLoading,     \* <Document file={file}>: a load of `file` is in progress
    imports,        \* onDocumentLoadSuccess continuations awaiting the outline
    lastOp,         \* history: the handler that ran last, and what it is to do
    balance,        \* history: successful inserts minus the sizes of the subtrees
                    \* removed, since the Forest was last reset to empty
    storeOnly,      \* history: only insert/edit/remove changed the Forest since then
    isProcessing,   \* useState(false)
    uploads,        \* the POST /api/upload requests of uploadPdf, in the order sent
    downloads,      \* the POST /api/process requests of downloadProcessed in flight
    uploadDir,      \* server: the files of uploads/, each a name and its bytes
    nextFile,       \* server: the file name multer hands out next
    reqBody,        \* server: req.body of the /api/process request at hand
    normalized,     \* server: const normalized of /api/process
    printedOutline, \* server: const printedOutline of /api/process
    awaiting,       \* server: /api/process is suspended at await outlinePdf(...)
    response,       \* server: what res.send / res.status().json sent last
    finishing,      \* server: the res.on('finish') callbacks not yet run
    keepAfterProcess, \* server: KEEP_AFTER_PROCESS
    hist            \* history: the request as sent, and the calls of outlinePdf

netVars == <<isProcessing, uploads, downloads>>

appVars == <<file, fileId, numPages, tree, pageView, modalOpen, modalMode,
             modalParentId, editingId, toast, nextId,
             docLoading, imports, lastOp, balance, storeOnly, netVars>>

srvVars == <<uploadDir, nextFile, reqBody, normalized, printedOutline, awaiting,
             response, finishing, keepAfterProcess, hist>>

vars == <<appVars, srvVars>>

-----------------------------------------------------------------------------
(* Bounds *)

\* uuidv4 is called at most MaxId times in a behaviour
MaxId == 3
\* onDocumentLoadSuccess continuations in flight at once
MaxInFlight == 1

\* the document of Spec, and the documents of ImportSpec
Docs == {1}
AllDocs == {1, 2, 3, 4, 5}
Ids == 1..MaxId

-----------------------------------------------------------------------------
(* Strings *)

Whitespace == {" "}
DigitChars == <<"0", "1", "2", "3", "4", "5", "6", "7", "8", "9">>

IsDigit(c) == \E i \in 1..10 : DigitChars[i] = c
DigitVal(c) == (CHOOSE i \in 1..10 : DigitChars[i] = c) - 1

RECURSIVE TrimStart(_)
TrimStart(s) ==
    IF s # <<>> /\ Head(s) \in Whitespace THEN TrimStart(Tail(s)) ELSE s

RECURSIVE TrimEnd(_)
TrimEnd(s) ==
    IF s # <<>> /\ s[Len(s)] \in Whitespace
    THEN TrimEnd(SubSeq(s, 1, Len(s) - 1)) ELSE s

\* String.prototype.trim
Trim(s) == TrimEnd(TrimStart(s))

\* the longest prefix of digits of s, as a number; acc is the value so far
RECURSIVE DigitsValue(_, _)
DigitsValue(s, acc) ==
    IF s # <<>> /\ IsDigit(Head(s))
    THEN DigitsValue(Tail(s), 10 * acc + DigitVal(Head(s)))
    ELSE acc

\* parseInt(s, 10): leading whitespace, an optional sign, then digits up to
\* the first other character; NaN when there is no digit.
parseInt(s) ==
    LET t    == TrimStart(s)
        neg  == t # <<>> /\ Head(t) = "-"
        body == IF t # <<>> /\ Head(t) \in {"-", "+"} THEN Tail(t) ELSE t
    IN  IF body = <<>> \/ ~IsDigit(Head(body))
        THEN [nan |-> TRUE, val |-> 0]
        ELSE [nan |-> FALSE,
              val |-> IF neg THEN 0 - DigitsValue(body, 0) ELSE DigitsValue(body, 0)]

-----------------------------------------------------------------------------
(* The Forest *)

\* a plausible slip: an identifier that is not fresh
createNodeSameId(id, title, page) ==
    [id |-> 1, title |-> title, page |-> page, children |-> <<>>]

\* createNode(title, page), with the identifier uuidv4() returned
createNode(id, title, page) ==
    [id |-> id, title |-> title, page |-> page, children |-> <<>>]

\* JSON.parse(JSON.stringify(t)) of a forest: a new forest with the four
\* fields of every node
RECURSIVE JsonClone(_)
JsonClone(nodes) ==
    IF nodes = <<>> THEN <<>>
    ELSE <<[id       |-> Head(nodes).id,
            title    |-> Head(nodes).title,
            page     |-> Head(nodes).page,
            children |-> JsonClone(Head(nodes).children)]>>
         \o JsonClone(Tail(nodes))

\* a plausible slip: the last element is moved into the place of the removed
\* one (arr[i] = arr.pop())
SpliceSwap(arr, i) ==
    IF i = Len(arr) THEN SubSeq(arr, 1, i - 1)
    ELSE SubSeq(arr, 1, i - 1) \o <<arr[Len(arr)]>> \o SubSeq(arr, i + 1, Len(arr) - 1)

\* arr.splice(i, 1)
Splice(arr, i) == SubSeq(arr, 1, i - 1) \o SubSeq(arr, i + 1, Len(arr))

\* a plausible slip: removing a node hands its children to its parent
ApplyOpPromote(arr, i, op) ==
    CASE op.kind = "push"   -> [arr EXCEPT ![i].children = Append(@, op.node)]
      [] op.kind = "edit"   -> [arr EXCEPT ![i].title = op.title, ![i].page = op.page]
      [] op.kind = "splice" -> SubSeq(arr, 1, i - 1) \o arr[i].children
                               \o SubSeq(arr, i + 1, Len(arr))

\* a plausible slip: the edit callback writes the page to arr[0]
ApplyOpEditFirst(arr, i, op) ==
    CASE op.kind = "push"   -> [arr EXCEPT ![i].children = Append(@, op.node)]
      [] op.kind = "edit"   -> [arr EXCEPT ![i].title = op.title, ![1].page = op.page]
      [] op.kind = "splice" -> Splice(arr, i)

\* a plausible slip: children.unshift(node) for children.push(node)
ApplyOpUnshift(arr, i, op) ==
    CASE op.kind = "push"   -> [arr EXCEPT ![i].children = <<op.node>> \o @]
      [] op.kind = "edit"   -> [arr EXCEPT ![i].title = op.title, ![i].page = op.page]
      [] op.kind = "splice" -> Splice(arr, i)

\* the callbacks handed to findAndOperate, applied to (arr, i)
ApplyOp(arr, i, op) ==
    CASE op.kind = "push"   -> [arr EXCEPT ![i].children = Append(@, op.node)]
      [] op.kind = "edit"   -> [arr EXCEPT ![i].title = op.title, ![i].page = op.page]
      [] op.kind = "splice" -> Splice(arr, i)

\* findAndOperate(nodes, id, op): depth-first, pre-order, first match wins.
\* The result carries the returned boolean and the array after the in-place
\* mutation the callback made.
RECURSIVE findAndOperate(_, _, _)
RECURSIVE findLoop(_, _, _, _)
findLoop(nodes, i, id, op) ==
    IF i > Len(nodes) THEN [found |-> FALSE, nodes |-> nodes]
    ELSE IF nodes[i].id = id
         THEN [found |-> TRUE, nodes |-> ApplyOp(nodes, i, op)]
    ELSE IF Len(nodes[i].children) > 0
         THEN LET r == findAndOperate(nodes[i].children, id, op)
              IN  IF r.found
                  THEN [found |-> TRUE,
                        nodes |-> [nodes EXCEPT ![i].children = r.nodes]]
                  ELSE findLoop(nodes, i + 1, id, op)
    ELSE findLoop(nodes, i + 1, id, op)

findAndOperate(nodes, id, op) == findLoop(nodes, 1, id, op)

\* copy.findIndex((n) => n.id === id), 0 for -1 (sequences are 1-based)
findIndex(nodes, id) ==
    IF \E i \in 1..Len(nodes) : nodes[i].id = id
    THEN CHOOSE i \in 1..Len(nodes) :
            nodes[i].id = id /\ \A j \in 1..(i - 1) : nodes[j].id # id
    ELSE 0

\* a plausible slip: copy.splice(copy.findIndex(...), 1) with no test of the
\* index; splice(-1, 1) removes the last element
removeUpdaterNoTest(t, id) ==
    LET copy == JsonClone(t)
        idx  == findIndex(copy, id)
    IN  IF idx # 0 THEN Splice(copy, idx)
        ELSE IF copy = <<>> THEN copy ELSE Splice(copy, Len(copy))

\* a plausible slip: only the roots are searched
removeUpdaterRootsOnly(t, id) ==
    LET copy == JsonClone(t)
        idx  == findIndex(copy, id)
    IN  IF idx # 0 THEN Splice(copy, idx) ELSE copy

\* the updater removeNode passes to setTree
removeUpdater(t, id) ==
    LET copy == JsonClone(t)
        idx  == findIndex(copy, id)
    IN  IF idx # 0 THEN Splice(copy, idx)
        ELSE findAndOperate(copy, id, [kind |-> "splice"]).nodes

\* the updater saveModal passes to setTree in addChild mode
addChildUpdater(t, parentId, node) ==
    findAndOperate(JsonClone(t), parentId, [kind |-> "push", node |-> node]).nodes

\* the updater saveModal passes to setTree in edit mode
editUpdater(t, id, title, page) ==
    findAndOperate(JsonClone(t), id,
                   [kind |-> "edit", title |-> title, page |-> page]).nodes

\* the updater saveModal passes to setTree in addRoot mode
addRootUpdater(t, node) == Append(t, node)

-----------------------------------------------------------------------------
(* The documents the user can select, as pdf.js presents them *)

Untitled == <<"U", "n", "t", "i", "t", "l", "e", "d">>

\* pdf.numPages
NumPagesOf(d) == IF d = 1 THEN 2 ELSE 3

\* pdf.getOutline().  An item is [title, dest, items]; a title that is absent
\* is written <<>>.  A dest is absent, a named reference (getDestination
\* resolves it) or explicit (its first element is a page reference for
\* getPageIndex; reference 0 is a first element that is no object).
\*   1: a chapter with one section
\*   2: no outline (null, written <<>>)
\*   3: a chain of three items: the lookup of the name throws, the lookup of
\*      the page throws, the page resolved lies past the end
\*   4: three siblings out of page order, the last resolving past the end
\*   5: an item whose reference is no object, with a child that resolves, and
\*      a sibling without dest
OutlineOf(d) ==
    CASE d = 1 ->
           << [title |-> <<" ", "a">>,
               dest  |-> [kind |-> "explicit", ref |-> 2],
               items |-> << [title |-> <<" ">>,
                             dest  |-> [kind |-> "named", name |-> "sec"],
                             items |-> <<>>] >>] >>
      [] d = 3 ->
           << [title |-> <<>>,
               dest  |-> [kind |-> "named", name |-> "bad"],
               items |-> << [title |-> <<" ">>,
                             dest  |-> [kind |-> "explicit", ref |-> 7],
                             items |-> << [title |-> <<"a", " ">>,
                                           dest  |-> [kind |-> "explicit", ref |-> 9],
                                           items |-> <<>>] >>] >>] >>
      [] d = 4 ->
           << [title |-> <<"b">>,
               dest  |-> [kind |-> "explicit", ref |-> 3],
               items |-> <<>>],
              [title |-> <<" ", "a">>,
               dest  |-> [kind |-> "named", name |-> "ch"],
               items |-> <<>>],
              [title |-> <<>>,
               dest  |-> [kind |-> "explicit", ref |-> 9],
               items |-> <<>>] >>
      [] d = 5 ->
           << [title |-> <<"a">>,
               dest  |-> [kind |-> "explicit", ref |-> 0],
               items |-> << [title |-> <<"b">>,
                             dest  |-> [kind |-> "explicit", ref |-> 2],
                             items |-> <<>>] >>],
              [title |-> <<" ">>,
               dest  |-> [kind |-> "absent"],
               items |-> <<>>] >>
      [] OTHER -> <<>>

\* documentProxy.getDestination(name): "ch" names the first page, the lookup
\* of "bad" rejects, and any other name is not defined (null)
GetDestination(d, name) ==
    CASE name = "ch"  -> [throws |-> FALSE, dest |-> [kind |-> "explicit", ref |-> 1]]
      [] name = "bad" -> [throws |-> TRUE,  dest |-> [kind |-> "absent"]]
      [] OTHER        -> [throws |-> FALSE, dest |-> [kind |-> "absent"]]

\* documentProxy.getPageIndex(ref): the 0-based index of the page a reference
\* names; reference 9 yields an index past the pages the document reports,
\* and the lookup rejects for any other reference to no page
GetPageIndex(d, ref) ==
    IF ref \in 1..NumPagesOf(d) THEN [throws |-> FALSE, idx |-> ref - 1]
    ELSE IF ref = 9 THEN [throws |-> FALSE, idx |-> 8]
    ELSE [throws |-> TRUE, idx |-> 0]

NullPage == [null |-> TRUE, val |-> 0]

\* destToPageNumber(documentProxy, dest); what throws is caught and gives null
destToPageNumber(d, dest) ==
    IF dest.kind = "absent" THEN NullPage
    ELSE LET looked == IF dest.kind = "named"
                       THEN GetDestination(d, dest.name)
                       ELSE [throws |-> FALSE, dest |-> dest]
         IN  IF looked.throws THEN NullPage
             ELSE IF looked.dest.kind = "explicit" /\ looked.dest.ref # 0
             THEN LET r == GetPageIndex(d, looked.dest.ref)
                  IN  IF r.throws THEN NullPage
                      ELSE [null |-> FALSE, val |-> r.idx + 1]
             ELSE NullPage

\* a plausible slip: the resolved page is used as it comes (null counts as 0)
safePageNoDefault(page, totalPages) == page.val

\* a plausible slip: the test page <= totalPages is left out
safePageNoUpperBound(page, totalPages) ==
    IF ~page.null /\ page.val # 0 /\ page.val >= 1 THEN page.val ELSE 1

\* page && page >= 1 && page <= totalPages ? page : 1
safePage(page, totalPages) ==
    IF ~page.null /\ page.val # 0 /\ page.val >= 1 /\ page.val <= totalPages
    THEN page.val ELSE 1

\* a plausible slip: (it.title || 'Untitled'), without trim()
importTitleUntrimmed(title) == IF title = <<>> THEN Untitled ELSE title

\* (it.title || '').trim() || 'Untitled'
importTitle(title) == IF Trim(title) = <<>> THEN Untitled ELSE Trim(title)

\* mapOutline(items): the nodes built for items[i..], and the identifier the
\* generator returns next.  Identifiers are handed out in pre-order; the order
\* in which the concurrent callbacks of Promise.all reach createNode changes
\* which fresh identifier a node gets, not that each gets its own.
RECURSIVE mapOutline(_, _, _, _)
RECURSIVE mapFrom(_, _, _, _, _)
mapFrom(d, items, i, totalPages, next) ==
    IF i > Len(items) THEN [nodes |-> <<>>, next |-> next]
    ELSE LET it   == items[i]
             node == createNode(next, importTitle(it.title),
                                safePage(destToPageNumber(d, it.dest), totalPages))
             ch   == IF Len(it.items) > 0
                     THEN mapOutline(d, it.items, totalPages, next + 1)
                     ELSE [nodes |-> <<>>, next |-> next + 1]
             rest == mapFrom(d, items, i + 1, totalPages, ch.next)
         IN  [nodes |-> <<[node EXCEPT !.children = ch.nodes]>> \o rest.nodes,
              next  |-> rest.next]

mapOutline(d, items, totalPages, next) == mapFrom(d, items, 1, totalPages, next)

-----------------------------------------------------------------------------
(* The outline serializer of the server.  A node of a bookmarks payload is   *)
(* [title, page, children]: title a string ('' when absent), page a number   *)
(* or absent (null), children an array ([] when absent).                     *)

AbsentPage == [null |-> TRUE, val |-> 0]
NumberPage(n) == [null |-> FALSE, val |-> n]
\* a page that is a string of the JSON body; the field text tells it from a
\* number
StringPage(s) == [null |-> FALSE, val |-> 0, text |-> s]
IsStringPage(page) == "text" \in DOMAIN page

\* a title that is no string (the number 7 of a JSON body), and the outcome of
\* an expression that threw
NotAString == <<"number">>
Thrown == <<"throw">>

\* the decimal digits of a natural number
RECURSIVE DigitsOf(_)
DigitsOf(n) ==
    IF n < 10 THEN <<DigitChars[n + 1]>>
    ELSE DigitsOf(n \div 10) \o <<DigitChars[(n % 10) + 1]>>

\* String(n) of an integer n, as a template literal `${n}` makes it
NumberToString(n) == IF n < 0 THEN <<"-">> \o DigitsOf(0 - n) ELSE DigitsOf(n)

\* String(b.page): parseInt converts its argument to a string first
pageString(page) ==
    IF IsStringPage(page) THEN page.text
    ELSE IF page.null THEN <<"u", "n", "d", "e", "f", "i", "n", "e", "d">>
    ELSE NumberToString(page.val)

\* Number(s) of a string: the whitespace around it is skipped, the empty
\* string is 0, a decimal numeral with an optional sign is its value and any
\* other text is NaN (the pages of the model have no decimal point, exponent
\* or radix prefix)
NumberOfString(s) ==
    LET t    == Trim(s)
        neg  == t # <<>> /\ Head(t) = "-"
        body == IF t # <<>> /\ Head(t) \in {"-", "+"} THEN Tail(t) ELSE t
    IN  IF t = <<>> THEN [nan |-> FALSE, val |-> 0]
        ELSE IF body # <<>> /\ \A i \in 1..Len(body) : IsDigit(body[i])
        THEN [nan |-> FALSE,
              val |-> IF neg THEN 0 - DigitsValue(body, 0) ELSE DigitsValue(body, 0)]
        ELSE [nan |-> TRUE, val |-> 0]

\* a plausible slip: the sort takes the default of the emission, || 1
sortKeyDefaultOne(page) ==
    IF IsStringPage(page)
    THEN LET n == NumberOfString(page.text)
         IN  IF n.nan \/ n.val = 0 THEN 1 ELSE n.val
    ELSE IF page.null \/ page.val = 0 THEN 1 ELSE page.val

\* Number(a.page) || 0
sortKey(page) ==
    IF IsStringPage(page)
    THEN LET n == NumberOfString(page.text)
         IN  IF n.nan THEN 0 ELSE n.val
    ELSE IF page.null \/ page.val = 0 THEN 0 ELSE page.val

\* the comparator of sort: (Number(a.page) || 0) - (Number(b.page) || 0)
compareByPage(a, b) == sortKey(a.page) - sortKey(b.page)

\* a plausible slip: an element moves in front of the elements it ties with
comesBeforeOrTies(x, y) == compareByPage(x, y) <= 0

\* Array.prototype.sort is stable: x ends up in front of y, which was in front
\* of it, only when the comparator is negative
comesBefore(x, y) == compareByPage(x, y) < 0

RECURSIVE insertInOrder(_, _)
insertInOrder(sorted, x) ==
    IF sorted = <<>> THEN <<x>>
    ELSE IF comesBefore(x, Head(sorted)) THEN <<x>> \o sorted
    ELSE <<Head(sorted)>> \o insertInOrder(Tail(sorted), x)

\* arr.sort(comparator): the array after the call
RECURSIVE sortArray(_)
sortArray(arr) ==
    IF arr = <<>> THEN <<>>
    ELSE insertInOrder(sortArray(SubSeq(arr, 1, Len(arr) - 1)), arr[Len(arr)])

\* sortBookmarksByPage(nodes): ret, the array it returns, and arg, the array
\* it was given as it is after the call
RECURSIVE sortBookmarksByPage(_)
RECURSIVE mapSorted(_)
\* .map((n) => ({...n, children: Array.isArray(n.children) ? sort(n.children) : []}))
mapSorted(arr) ==
    IF arr = <<>> THEN <<>>
    ELSE <<[Head(arr) EXCEPT !.children = sortBookmarksByPage(@).ret]>>
         \o mapSorted(Tail(arr))

\* a plausible slip: nodes.sort(...) without .slice() sorts the caller's array
sortBookmarksByPageInPlace(nodes) ==
    [arg |-> sortArray(nodes), ret |-> mapSorted(sortArray(nodes))]

sortBookmarksByPage(nodes) ==
    [arg |-> nodes, ret |-> mapSorted(sortArray(nodes))]

\* parseInt(b.page, 10) || 1
emitPage(page) ==
    LET r == parseInt(pageString(page))
    IN  IF r.nan \/ r.val = 0 THEN 1 ELSE r.val

\* a plausible slip: replace('\n', ' ') replaces the first newline only
RECURSIVE replaceFirstNewline(_)
replaceFirstNewline(title) ==
    IF title = <<>> THEN <<>>
    ELSE IF Head(title) = "\n" THEN <<" ">> \o Tail(title)
    ELSE <<Head(title)>> \o replaceFirstNewline(Tail(title))

\* (b.title || '').replace(/\n/g, ' '); a title that is a number has no
\* method replace: TypeError
replaceNewlines(title) ==
    IF title = NotAString THEN Thrown
    ELSE [i \in 1..Len(title) |-> IF title[i] = "\n" THEN " " ELSE title[i]]

\* a plausible slip: '-'.repeat(depth - 1), which throws for a root
depthMarkersBelow(depth) ==
    IF depth - 1 < 0 THEN Thrown ELSE [i \in 1..(depth - 1) |-> "-"]

\* '-'.repeat(depth); a negative count is a RangeError
depthMarkers(depth) ==
    IF depth < 0 THEN Thrown ELSE [i \in 1..depth |-> "-"]

\* a plausible slip: the markers of a node count its level from 1
lineOfLevel(b, depth) ==
    NumberToString(emitPage(b.page)) \o <<"|">> \o depthMarkers(depth + 1) \o <<"|">>
    \o replaceNewlines(b.title)

\* a plausible slip: a node without a title gives an empty line
lineOfTitled(b, depth) ==
    IF b.title = <<>> THEN <<>>
    ELSE NumberToString(emitPage(b.page)) \o <<"|">> \o depthMarkers(depth) \o <<"|">>
         \o replaceNewlines(b.title)

\* `${page}|${depthMarkers}|${title}`; Thrown when the title or the markers
\* threw
lineOf(b, depth) ==
    LET title == replaceNewlines(b.title)
        marks == depthMarkers(depth)
    IN  IF title = Thrown \/ marks = Thrown THEN Thrown
        ELSE NumberToString(emitPage(b.page)) \o <<"|">> \o marks \o <<"|">>
             \o title

\* the last callback of forEach threw: lines ends with Thrown and nothing is
\* pushed after it
hasThrown(lines) == lines # <<>> /\ lines[Len(lines)] = Thrown

\* bookmarks.forEach(...) of buildPrintedOutline(bookmarks, depth, lines): the
\* array lines after it
RECURSIVE forEachPush(_, _, _)
\* a plausible slip: the children are printed with the depth of their parent
forEachPushFlat(bookmarks, depth, lines) ==
    IF bookmarks = <<>> \/ hasThrown(lines) THEN lines
    ELSE LET b      == Head(bookmarks)
             pushed == Append(lines, lineOf(b, depth))
             after  == IF Len(b.children) > 0
                       THEN forEachPush(b.children, depth, pushed)
                       ELSE pushed
         IN  forEachPush(Tail(bookmarks), depth, after)

forEachPush(bookmarks, depth, lines) ==
    IF bookmarks = <<>> \/ hasThrown(lines) THEN lines
    ELSE LET b      == Head(bookmarks)
             pushed == Append(lines, lineOf(b, depth))
             after  == IF Len(b.children) > 0
                       THEN forEachPush(b.children, depth + 1, pushed)
                       ELSE pushed
         IN  forEachPush(Tail(bookmarks), depth, after)

\* lines.join('\n')
RECURSIVE join(_)
join(lines) ==
    IF lines = <<>> THEN <<>>
    ELSE IF Len(lines) = 1 THEN lines[1]
    ELSE lines[1] \o <<"\n">> \o join(Tail(lines))

\* buildPrintedOutline(bookmarks); Thrown when a callback of forEach threw
buildPrintedOutline(bookmarks) ==
    LET lines == forEachPush(bookmarks, 0, <<>>)
    IN  IF hasThrown(lines) THEN Thrown ELSE join(lines)

\* req.body.bookmarks: an array of nodes, or a value that is no array
NotArray == [array |-> FALSE, items |-> <<>>]
ArrayOf(items) == [array |-> TRUE, items |-> items]

\* lines 77-78 of /api/process: normalized and printedOutline, and the array
\* req.body.bookmarks as it is after them
serialize(bookmarks) ==
    LET r == IF bookmarks.array THEN sortBookmarksByPage(bookmarks.items)
             ELSE [arg |-> bookmarks.items, ret |-> <<>>]
    IN  [bookmarks      |-> [bookmarks EXCEPT !.items = r.arg],
         normalized     |-> r.ret,
         printedOutline |-> IF Len(r.ret) > 0 THEN buildPrintedOutline(r.ret)
                            ELSE <<>>]

-----------------------------------------------------------------------------
(* Reference view of a forest, used to state the properties: the nodes in    *)
(* pre-order, each with the id of its parent (0 for a root).  A forest is    *)
(* determined by this listing.                                               *)

RECURSIVE Flat(_, _)
Flat(nodes, parent) ==
    IF nodes = <<>> THEN <<>>
    ELSE <<[id |-> Head(nodes).id, parent |-> parent,
            title |-> Head(nodes).title, page |-> Head(nodes).page]>>
         \o Flat(Head(nodes).children, Head(nodes).id)
         \o Flat(Tail(nodes), parent)

FlatTree == Flat(tree, 0)
NodeIds(f) == {f[i].id : i \in 1..Len(f)}
NodeCount(f) == Len(f)

\* the ids of the nodes of the subtree rooted at id (id included), from the
\* parent pointers alone
RECURSIVE SubtreeIds(_, _)
SubtreeIds(f, id) ==
    {id} \cup UNION {SubtreeIds(f, f[i].id) : i \in {j \in 1..Len(f) : f[j].parent = id}}

-----------------------------------------------------------------------------
(* Reference notions for the properties and the history variables, written  *)
(* without the operators of the model above                                 *)

IsBlank(t) == \A i \in 1..Len(t) : t[i] \in Whitespace

\* t without the whitespace before its first and after its last other character
RefTrim(t) ==
    LET nz == {i \in 1..Len(t) : t[i] \notin Whitespace}
    IN  IF nz = {} THEN <<>>
        ELSE SubSeq(t, CHOOSE i \in nz : \A j \in nz : i <= j,
                       CHOOSE i \in nz : \A j \in nz : j <= i)

\* the decimal numeral of a natural number
RECURSIVE Decimal(_)
Decimal(n) ==
    IF n < 10 THEN <<DigitChars[n + 1]>>
    ELSE Decimal(n \div 10) \o <<DigitChars[(n % 10) + 1]>>

\* the field p starts with the numeral of n, and the numeral ends there
ParsesTo(p, n) ==
    LET d == Decimal(n)
    IN  /\ Len(p) >= Len(d)
        /\ SubSeq(p, 1, Len(d)) = d
        /\ Len(p) > Len(d) => ~IsDigit(p[Len(d) + 1])

PageNumbers == 1..9

\* the commit (t, p) passes the validation policy when np pages are known
\* (np = 0: not known)
ValidCommit(t, p, np) ==
    /\ ~IsBlank(t)
    /\ \E n \in PageNumbers : ParsesTo(p, n) /\ (np # 0 => n <= np)

RefPage(p) == CHOOSE n \in PageNumbers : ParsesTo(p, n)

\* the listing without the entries of the ids in S
Without(f, S) == SelectSeq(f, LAMBDA n : n.id \notin S)

\* remove(id): the node and its whole subtree leave the listing, the rest stays
RefRemove(f, id) ==
    IF id \in NodeIds(f) THEN Without(f, SubtreeIds(f, id)) ELSE f

\* edit(id, title, page): the entry of id gets the title and the page
RefEdit(f, id, title, page) ==
    [i \in 1..Len(f) |->
        IF f[i].id = id THEN [f[i] EXCEPT !.title = title, !.page = page] ELSE f[i]]

\* insertRoot: a new last root
RefInsertRoot(f, id, title, page) ==
    Append(f, [id |-> id, parent |-> 0, title |-> title, page |-> page])

\* insertChild: a new last child of parent, that is, a new entry right after
\* the last entry of the subtree of parent
RefInsertChild(f, parent, id, title, page) ==
    IF parent \notin NodeIds(f) THEN f
    ELSE LET S == SubtreeIds(f, parent)
             k == CHOOSE i \in 1..Len(f) :
                     f[i].id \in S /\ \A j \in (i + 1)..Len(f) : f[j].id \notin S
         IN  SubSeq(f, 1, k)
             \o <<[id |-> id, parent |-> parent, title |-> title, page |-> page]>>
             \o SubSeq(f, k + 1, Len(f))

\* the place of the node id in the listing f
RefPlace(f, id) == CHOOSE i \in 1..Len(f) : f[i].id = id

\* between the listings b (before) and a (after), the nodes that are in both
\* have the parent they had, and two of them that were siblings are in the
\* order they were in
RefOrderKept(b, a) ==
    LET S == NodeIds(b) \cap NodeIds(a)
    IN  \A x \in S, y \in S :
           /\ a[RefPlace(a, x)].parent = b[RefPlace(b, x)].parent
           /\ (b[RefPlace(b, x)].parent = b[RefPlace(b, y)].parent) =>
                 (RefPlace(b, x) < RefPlace(b, y) <=> RefPlace(a, x) < RefPlace(a, y))

\* between b and a the page of a node went from no less than the page of a
\* sibling in front of it to less than it
RefLowered(b, a) ==
    \E x \in NodeIds(b) \cap NodeIds(a), y \in NodeIds(b) \cap NodeIds(a) :
       /\ b[RefPlace(b, x)].parent = b[RefPlace(b, y)].parent
       /\ RefPlace(b, y) < RefPlace(b, x)
       /\ b[RefPlace(b, x)].page >= b[RefPlace(b, y)].page
       /\ a[RefPlace(a, x)].page < a[RefPlace(a, y)].page

-----------------------------------------------------------------------------
(* What the user can type into the form *)

\* <<title field, page field>>: a blank title, the pages 0, -1 and .5 (none
\* of them a page), and two commits that differ in title and page; page 3 is
\* past the end of document 1
FormInputs ==
    { << <<" ">>,      <<"1">> >>,
      << <<" ", "a">>, <<"0">> >>,
      << <<" ", "a">>, <<"-", "1">> >>,
      << <<" ", "a">>, <<".", "5">> >>,
      << <<" ", "a">>, <<"1", ".", "5">> >>,
      << <<"b", " ">>, <<"3">> >> }

NoToast == [message |-> "", type |-> "none"]
\* showToast(message, type = 'info')
showToast(message, type) == [message |-> message, type |-> type]

\* lastOp: op, the handler; valid, the commit passed the validation policy;
\* found, the id it names was in the Forest; nested and size, the place and
\* the size of a removed subtree; expect, the listing of the Forest the
\* operation is to leave; doc, the document of an import; before, the
\* listing an updater of StoreSpec was applied to, or the listing of the
\* Forest when the download request that settled was started
NoOp == [op |-> "none", valid |-> FALSE, found |-> FALSE, nested |-> FALSE,
         size |-> 0, expect |-> <<>>, doc |-> 0, before |-> <<>>]

\* a handler that pushes no toast and is no operation of the tree store
Quiet(name) ==
    /\ toast' = NoToast
    /\ lastOp' = [NoOp EXCEPT !.op = name]

\* no request of the page has been sent
NetIdle ==
    /\ isProcessing = FALSE
    /\ uploads = <<>>
    /\ downloads = <<>>

AppInit ==
    /\ file = 0
    /\ fileId = 0
    /\ numPages = 0
    /\ tree = <<>>
    /\ pageView = 1
    /\ modalOpen = FALSE
    /\ modalMode = "addRoot"
    /\ modalParentId = 0
    /\ editingId = 0
    /\ toast = NoToast
    /\ nextId = 1
    /\ docLoading = FALSE
    /\ imports = [d \in AllDocs |-> 0]
    /\ lastOp = NoOp
    /\ balance = 0
    /\ storeOnly = TRUE
    /\ NetIdle

\* no request has reached the server
NoBody == [kind |-> "none", doc |-> 0, embedded |-> FALSE, outline |-> <<>>]
NoResponse == [status |-> 0, body |-> NoBody]
NoRequest == [id |-> 0, bookmarks |-> NotArray]
\* hist: op, the route that ran last; sent, the bookmarks as they arrived;
\* runs and first, the runs of the serializer and the descriptor of the first;
\* calls, the outlines outlinePdf was called with; existed, the file of the id
\* was there; cleaned, the paths of the 'finish' callbacks that have run;
\* after, the request named an id whose upload such a callback had unlinked
NoHist == [op |-> "none", sent |-> NotArray, runs |-> 0, first |-> <<>>,
           calls |-> <<>>, existed |-> FALSE, cleaned |-> {}, after |-> FALSE]

SrvIdle ==
    /\ uploadDir = {}
    /\ nextFile = 1
    /\ reqBody = NoRequest
    /\ normalized = <<>>
    /\ printedOutline = <<>>
    /\ awaiting = FALSE
    /\ response = NoResponse
    /\ finishing = {}
    /\ keepAfterProcess = FALSE
    /\ hist = NoHist

Init == AppInit /\ SrvIdle

modalVars == <<modalOpen, modalMode, modalParentId, editingId>>
docVars   == <<file, fileId, numPages, pageView, docLoading, imports>>

\* the state updates of uploadPdf(selectedFile), lines 163-172
selectFile(d) ==
    /\ ~modalOpen
    /\ tree' = <<>>
    /\ numPages' = 0
    /\ pageView' = 1
    /\ fileId' = 0
    /\ file' = d
    /\ docLoading' = TRUE
    /\ balance' = 0
    /\ storeOnly' = TRUE
    /\ Quiet("uploadPdf")
    /\ UNCHANGED <<modalVars, nextId, imports>>

\* uploadPdf(selectedFile) up to the await of the upload request, in the
\* specifications that do not follow the request: there its response has not
\* arrived, and fileId stays null
UploadPdf(d) ==
    /\ selectFile(d)
    /\ UNCHANGED <<netVars, srvVars>>

\* the onDocumentLoadSuccess continuations that await an outline
InFlight == Cardinality({<<d, k>> \in AllDocs \X (1..(MaxInFlight + 1)) : k <= imports[d]})

\* onDocumentLoadSuccess(pdf) up to the await of pdf.getOutline()
OnDocumentLoadSuccess ==
    /\ docLoading
    /\ file # 0
    /\ Len(tree) = 0 => InFlight < MaxInFlight
    /\ numPages' = NumPagesOf(file)
    /\ pageView' = 1
    /\ docLoading' = FALSE
    /\ imports' = IF Len(tree) = 0
                  THEN [imports EXCEPT ![file] = @ + 1]
                  ELSE imports
    /\ Quiet("onDocumentLoadSuccess")
    /\ UNCHANGED <<file, fileId, tree, modalVars, nextId, balance, storeOnly>>
    /\ UNCHANGED <<netVars, srvVars>>

\* onDocumentLoadSuccess after the awaits: the outline of document d is mapped
\* and, when it has nodes, published with setTree(imported)
ImportFinish(d) ==
    /\ imports[d] > 0
    /\ imports' = [imports EXCEPT ![d] = @ - 1]
    /\ LET items == OutlineOf(d)
           res   == mapOutline(d, items, NumPagesOf(d), nextId)
       IN  IF Len(items) > 0 /\ Len(res.nodes) > 0
           THEN /\ res.next <= MaxId + 1
                /\ tree' = res.nodes
                /\ nextId' = res.next
                /\ toast' = showToast("Imported existing bookmarks", "info")
                /\ lastOp' = [NoOp EXCEPT !.op = "import", !.valid = TRUE,
                                          !.doc = d]
                /\ storeOnly' = FALSE
                /\ balance' = 0
           ELSE /\ toast' = NoToast
                /\ lastOp' = [NoOp EXCEPT !.op = "import", !.doc = d,
                                          !.expect = FlatTree]
                /\ UNCHANGED <<tree, nextId, balance, storeOnly>>
    /\ UNCHANGED <<file, fileId, numPages, pageView, modalVars, docLoading>>
    /\ UNCHANGED <<netVars, srvVars>>

\* openAddRoot(); the button is disabled while no file is selected
OpenAddRoot ==
    /\ ~modalOpen
    /\ file # 0
    /\ modalMode' = "addRoot"
    /\ modalParentId' = 0
    /\ editingId' = 0
    /\ modalOpen' = TRUE
    /\ Quiet("open")
    /\ UNCHANGED <<docVars, tree, nextId, balance, storeOnly>>
    /\ UNCHANGED <<netVars, srvVars>>

\* openAddChild(parentId), from the Add button of a node of the current or an
\* earlier render
OpenAddChild(parentId) ==
    /\ ~modalOpen
    /\ parentId \in 1..(nextId - 1)
    /\ modalMode' = "addChild"
    /\ modalParentId' = parentId
    /\ editingId' = 0
    /\ modalOpen' = TRUE
    /\ Quiet("open")
    /\ UNCHANGED <<docVars, tree, nextId, balance, storeOnly>>
    /\ UNCHANGED <<netVars, srvVars>>

\* openEdit(id), from the Edit button of a node of the current or an earlier
\* render
OpenEdit(id) ==
    /\ ~modalOpen
    /\ id \in 1..(nextId - 1)
    /\ modalMode' = "edit"
    /\ editingId' = id
    /\ modalParentId' = 0
    /\ modalOpen' = TRUE
    /\ Quiet("open")
    /\ UNCHANGED <<docVars, tree, nextId, balance, storeOnly>>
    /\ UNCHANGED <<netVars, srvVars>>

\* onClose of the Modal (Cancel, or a click on the backdrop)
CloseModal ==
    /\ modalOpen
    /\ modalOpen' = FALSE
    /\ Quiet("close")
    /\ UNCHANGED <<docVars, tree, nextId, balance, storeOnly, modalMode,
                   modalParentId, editingId>>
    /\ UNCHANGED <<netVars, srvVars>>

\* a plausible slip in saveModal: the test `page < 1` is left out
isRejectedNoLowerBound(title, page, np) ==
    \/ title = <<>>
    \/ page.nan
    \/ page.val = 0
    \/ (np # 0 /\ page.val > np)

\* the test of saveModal that rejects the commit:
\* !title || !page || page < 1 || (numPages ? page > numPages : false)
isRejected(title, page, np) ==
    \/ title = <<>>
    \/ page.nan
    \/ page.val = 0
    \/ page.val < 1
    \/ (np # 0 /\ page.val > np)

\* history of saveModal: what the commit (t, p) is to do to the Forest
SaveHistory(t, p) ==
    LET f     == FlatTree
        valid == ValidCommit(t, p, numPages)
        T     == RefTrim(t)
        n     == RefPage(p)
        found == CASE modalMode = "addRoot"  -> TRUE
                   [] modalMode = "addChild" -> modalParentId \in NodeIds(f)
                   [] modalMode = "edit"     -> editingId \in NodeIds(f)
    IN  /\ lastOp' = [op     |-> modalMode,
                      valid  |-> valid,
                      found  |-> found,
                      nested |-> modalMode = "addChild",
                      size   |-> 0,
                      doc    |-> 0,
                      before |-> <<>>,
                      expect |->
                          IF ~valid THEN f
                          ELSE CASE modalMode = "addRoot" ->
                                        RefInsertRoot(f, nextId, T, n)
                                 [] modalMode = "addChild" ->
                                        RefInsertChild(f, modalParentId, nextId, T, n)
                                 [] modalMode = "edit" ->
                                        RefEdit(f, editingId, T, n)]
        /\ balance' = IF storeOnly /\ valid /\ found /\ modalMode # "edit"
                      THEN balance + 1 ELSE balance
        /\ UNCHANGED storeOnly

\* saveModal(), with the contents t and p of the form fields (set by the
\* onChange handlers setFormTitle and setFormPage).  The confirm button is
\* disabled while a field is empty.
SaveModal(t, p) ==
    /\ modalOpen
    /\ t # <<>>
    /\ p # <<>>
    /\ LET title == Trim(t)
           page  == parseInt(p)
       IN  IF isRejected(title, page, numPages)
           THEN /\ toast' = showToast("Please provide a valid title and page number", "error")
                /\ UNCHANGED <<tree, nextId, modalOpen>>
           ELSE /\ modalOpen' = FALSE
                /\ IF modalMode = "addRoot"
                   THEN /\ nextId <= MaxId
                        /\ tree' = addRootUpdater(tree, createNode(nextId, title, page.val))
                        /\ nextId' = nextId + 1
                        /\ toast' = showToast("Bookmark added", "info")
                   ELSE IF modalMode = "addChild" /\ modalParentId # 0
                   THEN /\ nextId <= MaxId
                        /\ tree' = addChildUpdater(tree, modalParentId,
                                                   createNode(nextId, title, page.val))
                        /\ nextId' = nextId + 1
                        /\ toast' = showToast("Child bookmark added", "info")
                   ELSE IF modalMode = "edit" /\ editingId # 0
                   THEN /\ tree' = editUpdater(tree, editingId, title, page.val)
                        /\ toast' = showToast("Bookmark updated", "info")
                        /\ UNCHANGED nextId
                   ELSE /\ toast' = NoToast
                        /\ UNCHANGED <<tree, nextId>>
    /\ SaveHistory(t, p)
    /\ UNCHANGED <<docVars, modalMode, modalParentId, editingId>>
    /\ UNCHANGED <<netVars, srvVars>>

\* removeNode(id), from the Remove button of a node of the current or an
\* earlier render
RemoveNode(id) ==
    /\ ~modalOpen
    /\ id \in 1..(nextId - 1)
    /\ tree' = removeUpdater(tree, id)
    /\ toast' = showToast("Bookmark removed", "info")
    /\ LET f     == FlatTree
           found == id \in NodeIds(f)
           size  == IF found THEN Cardinality(SubtreeIds(f, id)) ELSE 0
       IN  /\ lastOp' = [op     |-> "removeNode",
                         valid  |-> TRUE,
                         found  |-> found,
                         nested |-> \E i \in 1..Len(f) : f[i].id = id /\ f[i].parent # 0,
                         size   |-> size,
                         doc    |-> 0,
                         before |-> <<>>,
                         expect |-> RefRemove(f, id)]
           /\ balance' = IF storeOnly THEN balance - size ELSE balance
    /\ UNCHANGED <<docVars, modalVars, nextId, storeOnly>>
    /\ UNCHANGED <<netVars, srvVars>>

\* Clear All Bookmarks: setTree([]); the button is shown while the Forest has
\* a node
ClearAll ==
    /\ ~modalOpen
    /\ Len(tree) > 0
    /\ tree' = <<>>
    /\ balance' = 0
    /\ storeOnly' = TRUE
    /\ Quiet("clearAll")
    /\ UNCHANGED <<docVars, modalVars, nextId>>
    /\ UNCHANGED <<netVars, srvVars>>

Next ==
    \/ \E d \in Docs : UploadPdf(d)
    \/ OnDocumentLoadSuccess
    \/ \E d \in Docs : ImportFinish(d)
    \/ OpenAddRoot
    \/ \E id \in Ids : OpenAddChild(id)
    \/ \E id \in Ids : OpenEdit(id)
    \/ CloseModal
    \/ \E in \in FormInputs : SaveModal(in[1], in[2])
    \/ \E id \in Ids : RemoveNode(id)
    \/ ClearAll

Spec == Init /\ [][Next]_vars

-----------------------------------------------------------------------------
(* Selecting documents and importing their outlines: the handlers of the    *)
(* document, over all the documents                                         *)

ImportNext ==
    \/ \E d \in AllDocs : UploadPdf(d)
    \/ OnDocumentLoadSuccess
    \/ \E d \in AllDocs : ImportFinish(d)

ImportSpec == Init /\ [][ImportNext]_vars

-----------------------------------------------------------------------------
(* Uploads and downloads: the requests uploadPdf and downloadProcessed send, *)
(* and their continuations when the responses arrive, with the editor.  The  *)
(* server names the uploads in the order they were sent: the id of the k-th  *)
(* POST /api/upload is k.                                                    *)

\* uploadPdf is called at most MaxUploads times in a behaviour
MaxUploads == 2
\* download requests in flight at once (the button allows one)
MaxDownloads == 2
\* uuidv4 is called at most MaxDlId times in a behaviour of DlSpec
MaxDlId == 1

\* the documents of DlSpec
DlDocs == {1, 2}

\* the commits of DlSpec: two that pass the test of saveModal
DlInputs ==
    { << <<" ", "a">>, <<"1", ".", "5">> >>,
      << <<"b", " ">>, <<"3">> >> }

\* uploadPdf(selectedFile) up to the await of axios.post
UploadPdfPost(d) ==
    /\ Len(uploads) < MaxUploads
    /\ selectFile(d)
    /\ uploads' = Append(uploads, [doc |-> d, open |-> TRUE])
    /\ UNCHANGED <<isProcessing, downloads>>
    /\ UNCHANGED srvVars

\* uploadPdf after the await: the response of the k-th upload arrived
UploadResponse(k) ==
    /\ k \in 1..Len(uploads)
    /\ uploads[k].open
    /\ uploads' = [uploads EXCEPT ![k].open = FALSE]
    /\ fileId' = k
    /\ toast' = showToast("PDF uploaded", "info")
    /\ lastOp' = [NoOp EXCEPT !.op = "uploaded"]
    /\ UNCHANGED <<file, numPages, pageView, docLoading, imports, tree, modalVars,
                   nextId, balance, storeOnly, isProcessing, downloads>>
    /\ UNCHANGED srvVars

\* uploadPdf after the await: the k-th upload was rejected (catch block)
UploadFailure(k) ==
    /\ k \in 1..Len(uploads)
    /\ uploads[k].open
    /\ uploads' = [uploads EXCEPT ![k].open = FALSE]
    /\ toast' = showToast("Failed to upload PDF", "error")
    /\ lastOp' = [NoOp EXCEPT !.op = "uploadFailed"]
    /\ UNCHANGED <<docVars, tree, modalVars, nextId, balance, storeOnly,
                   isProcessing, downloads>>
    /\ UNCHANGED srvVars

\* strip(node) of downloadProcessed and tree.map(strip); a node without
\* children gets no field children, which the server reads as []
RECURSIVE payloadOf(_)
\* a plausible slip: const out = {...node}
stripSpread(node) ==
    [id |-> node.id, title |-> node.title, page |-> NumberPage(node.page),
     children |-> payloadOf(node.children)]

strip(node) ==
    [title |-> node.title, page |-> NumberPage(node.page),
     children |-> payloadOf(node.children)]

payloadOf(t) ==
    IF t = <<>> THEN <<>> ELSE <<strip(Head(t))>> \o payloadOf(Tail(t))

\* a plausible slip: disabled={!canDownload}
downloadDisabledNoFile(fid, processing) == fid = 0

\* disabled={!canDownload || isProcessing} of the download button
downloadDisabled(fid, processing) == fid = 0 \/ processing

\* downloadProcessed() up to the await of axios.post
DownloadProcessed ==
    /\ ~modalOpen
    /\ ~downloadDisabled(fileId, isProcessing)
    /\ Len(downloads) < MaxDownloads
    /\ isProcessing' = TRUE
    /\ downloads' = Append(downloads, [id |-> fileId, bookmarks |-> payloadOf(tree),
                                        forest |-> FlatTree])
    /\ Quiet("downloadProcessed")
    /\ UNCHANGED <<docVars, tree, modalVars, nextId, balance, storeOnly, uploads>>
    /\ UNCHANGED srvVars

\* a plausible slip: the continuation puts the Forest of the request back,
\* setTree of what was sent
DownloadSettleApplied(i, ok) ==
    /\ i \in 1..Len(downloads)
    /\ downloads' = SubSeq(downloads, 1, i - 1) \o SubSeq(downloads, i + 1, Len(downloads))
    /\ isProcessing' = FALSE
    /\ toast' = IF ok THEN showToast("Downloaded processed PDF", "info")
                ELSE showToast("Failed to process PDF", "error")
    /\ lastOp' = [NoOp EXCEPT !.op = IF ok THEN "downloaded" ELSE "downloadFailed",
                              !.expect = FlatTree,
                              !.before = downloads[i].forest]
    /\ tree' = IF ok THEN <<>> ELSE tree
    /\ UNCHANGED <<docVars, modalVars, nextId, balance, storeOnly, uploads>>
    /\ UNCHANGED srvVars

\* downloadProcessed after the await: the i-th request in flight settled,
\* with a response (ok) or rejected; finally setIsProcessing(false)
DownloadSettle(i, ok) ==
    /\ i \in 1..Len(downloads)
    /\ downloads' = SubSeq(downloads, 1, i - 1) \o SubSeq(downloads, i + 1, Len(downloads))
    /\ isProcessing' = FALSE
    /\ toast' = IF ok THEN showToast("Downloaded processed PDF", "info")
                ELSE showToast("Failed to process PDF", "error")
    /\ lastOp' = [NoOp EXCEPT !.op = IF ok THEN "downloaded" ELSE "downloadFailed",
                              !.expect = FlatTree,
                              !.before = downloads[i].forest]
    /\ UNCHANGED <<docVars, tree, modalVars, nextId, balance, storeOnly, uploads>>
    /\ UNCHANGED srvVars

\* saveModal within the bound of DlSpec
DlSaveModal(t, p) ==
    /\ modalMode = "edit" \/ nextId <= MaxDlId
    /\ SaveModal(t, p)

DlNext ==
    \/ \E d \in DlDocs : UploadPdfPost(d)
    \/ \E k \in 1..MaxUploads : UploadResponse(k)
    \/ \E k \in 1..MaxUploads : UploadFailure(k)
    \/ OpenAddRoot
    \/ \E id \in 1..MaxDlId : OpenEdit(id)
    \/ \E in \in DlInputs : DlSaveModal(in[1], in[2])
    \/ \E id \in 1..MaxDlId : RemoveNode(id)
    \/ ClearAll
    \/ DownloadProcessed
    \/ \E i \in 1..MaxDownloads, ok \in BOOLEAN : DownloadSettle(i, ok)

DlSpec == Init /\ [][DlNext]_vars

-----------------------------------------------------------------------------
(* The tree store on its own: the updaters saveModal and removeNode pass to  *)
(* setTree, each applied once to a Forest the editor can hold                *)

\* a Forest of StoreSpec holds at most MaxStore nodes
MaxStore == 3

\* the pages of its nodes
StorePages == {1, 3}

RECURSIVE StoreSize(_)
StoreSize(nodes) ==
    IF nodes = <<>> THEN 0
    ELSE 1 + StoreSize(Head(nodes).children) + StoreSize(Tail(nodes))

\* the forests of at most n nodes, all of id 0
RECURSIVE StoreShapes(_)
StoreShapes(n) ==
    IF n = 0 THEN {<<>>}
    ELSE LET first == { [id |-> 0, title |-> <<"a">>, page |-> p, children |-> c] :
                            p \in StorePages, c \in StoreShapes(n - 1) }
         IN  {<<>>} \cup UNION { { <<t>> \o rest :
                                     rest \in StoreShapes(n - StoreSize(<<t>>)) } :
                                 t \in first }

\* the forest with the ids next, next + 1, ... given to its nodes in pre-order
\* (the ids are compared for equality only, so that any other way to hand
\* out distinct ids gives the same forests up to the names of the nodes)
RECURSIVE WithIds(_, _)
WithIds(nodes, next) ==
    IF nodes = <<>> THEN <<>>
    ELSE LET h == Head(nodes)
         IN  <<[h EXCEPT !.id = next, !.children = WithIds(h.children, next + 1)]>>
             \o WithIds(Tail(nodes), next + 1 + StoreSize(h.children))

StoreInit ==
    /\ \E shape \in StoreShapes(MaxStore) :
          /\ tree = WithIds(shape, 1)
          /\ nextId = StoreSize(shape) + 1
    /\ file = 1
    /\ fileId = 0
    /\ numPages = 0
    /\ pageView = 1
    /\ modalOpen = FALSE
    /\ modalMode = "addRoot"
    /\ modalParentId = 0
    /\ editingId = 0
    /\ toast = NoToast
    /\ docLoading = TRUE
    /\ imports = [d \in AllDocs |-> 0]
    /\ lastOp = NoOp
    /\ balance = 0
    /\ storeOnly = TRUE
    /\ NetIdle
    /\ SrvIdle

storeFrame == <<docVars, modalVars, toast, balance, storeOnly>>

\* setTree((t) => [...t, createNode(title, page)])
ApplyAddRoot(title, page) ==
    /\ lastOp.op = "none"
    /\ tree' = addRootUpdater(tree, createNode(nextId, title, page))
    /\ nextId' = nextId + 1
    /\ lastOp' = [NoOp EXCEPT !.op = "addRoot", !.before = FlatTree]
    /\ UNCHANGED storeFrame
    /\ UNCHANGED <<netVars, srvVars>>

\* setTree of saveModal in addChild mode
ApplyAddChild(parentId, title, page) ==
    /\ lastOp.op = "none"
    /\ tree' = addChildUpdater(tree, parentId, createNode(nextId, title, page))
    /\ nextId' = nextId + 1
    /\ lastOp' = [NoOp EXCEPT !.op = "addChild", !.before = FlatTree]
    /\ UNCHANGED storeFrame
    /\ UNCHANGED <<netVars, srvVars>>

\* setTree of saveModal in edit mode
ApplyEdit(id, title, page) ==
    /\ lastOp.op = "none"
    /\ tree' = editUpdater(tree, id, title, page)
    /\ lastOp' = [NoOp EXCEPT !.op = "edit", !.before = FlatTree]
    /\ UNCHANGED <<storeFrame, nextId>>
    /\ UNCHANGED <<netVars, srvVars>>

\* setTree of removeNode
ApplyRemove(id) ==
    /\ lastOp.op = "none"
    /\ tree' = removeUpdater(tree, id)
    /\ lastOp' = [NoOp EXCEPT !.op = "removeNode", !.before = FlatTree]
    /\ UNCHANGED <<storeFrame, nextId>>
    /\ UNCHANGED <<netVars, srvVars>>

\* the ids a button of the current or of an earlier render can name, and the
\* values a commit that passed saveModal's test can carry
StoreNext ==
    \/ \E p \in StorePages : ApplyAddRoot(<<"b">>, p)
    \/ \E id \in 1..(MaxStore + 1), p \in StorePages : ApplyAddChild(id, <<"b">>, p)
    \/ \E id \in 1..(MaxStore + 1), p \in StorePages : ApplyEdit(id, <<"b">>, p)
    \/ \E id \in 1..(MaxStore + 1) : ApplyRemove(id)

StoreSpec == StoreInit /\ [][StoreNext]_vars

-----------------------------------------------------------------------------
(* The download request on its own: downloadProcessed sends a Forest the     *)
(* editor can hold, children included, for a document that was uploaded      *)

SendInit ==
    /\ \E shape \in StoreShapes(MaxStore) :
          /\ tree = WithIds(shape, 1)
          /\ nextId = StoreSize(shape) + 1
    /\ file = 1
    /\ fileId = 1
    /\ numPages = 0
    /\ pageView = 1
    /\ modalOpen = FALSE
    /\ modalMode = "addRoot"
    /\ modalParentId = 0
    /\ editingId = 0
    /\ toast = NoToast
    /\ docLoading = TRUE
    /\ imports = [d \in AllDocs |-> 0]
    /\ lastOp = NoOp
    /\ balance = 0
    /\ storeOnly = TRUE
    /\ isProcessing = FALSE
    /\ uploads = <<[doc |-> 1, open |-> FALSE]>>
    /\ downloads = <<>>
    /\ SrvIdle

SendNext ==
    \/ DownloadProcessed
    \/ \E i \in 1..MaxDownloads, ok \in BOOLEAN : DownloadSettle(i, ok)

SendSpec == SendInit /\ [][SendNext]_vars

-----------------------------------------------------------------------------
(* The serializer on its own: lines 77-78 of /api/process applied, once and  *)
(* again, to a bookmarks array a client sent                                 *)

\* a bookmarks array holds at most MaxNodes nodes
MaxNodes == 3

\* the title and page of a payload node: absent page, a page that is no
\* numeral, negative, zero, pages that tie, a page of two digits, titles with
\* newlines and without characters
Labels ==
    { [title |-> <<>>,                     page |-> AbsentPage],
      [title |-> <<"b">>,                  page |-> StringPage(<<"x">>)],
      [title |-> <<"a">>,                  page |-> NumberPage(0 - 1)],
      [title |-> <<"b">>,                  page |-> NumberPage(0)],
      [title |-> <<>>,                     page |-> NumberPage(1)],
      [title |-> <<"b">>,                  page |-> NumberPage(2)],
      [title |-> <<"a">>,                  page |-> NumberPage(2)],
      [title |-> <<"a", "\n", "\n", "b">>, page |-> NumberPage(10)] }

RECURSIVE PayloadSize(_)
PayloadSize(nodes) ==
    IF nodes = <<>> THEN 0
    ELSE 1 + PayloadSize(Head(nodes).children) + PayloadSize(Tail(nodes))

\* the arrays of at most n nodes
RECURSIVE PayloadsUpTo(_)
PayloadsUpTo(n) ==
    IF n = 0 THEN {<<>>}
    ELSE LET first == { [title |-> l.title, page |-> l.page, children |-> c] :
                            l \in Labels, c \in PayloadsUpTo(n - 1) }
         IN  {<<>>} \cup UNION { { <<t>> \o rest :
                                     rest \in PayloadsUpTo(n - PayloadSize(<<t>>)) } :
                                 t \in first }

SerInit ==
    /\ AppInit
    /\ uploadDir = {}
    /\ nextFile = 1
    /\ \E items \in PayloadsUpTo(MaxNodes) :
          /\ reqBody = [id |-> 0, bookmarks |-> ArrayOf(items)]
          /\ hist = [NoHist EXCEPT !.sent = ArrayOf(items)]
    /\ normalized = <<>>
    /\ printedOutline = <<>>
    /\ awaiting = FALSE
    /\ response = NoResponse
    /\ finishing = {}
    /\ keepAfterProcess = FALSE

\* normalized and printedOutline are computed from req.body.bookmarks
Serialize ==
    /\ hist.runs < 2
    /\ LET r == serialize(reqBody.bookmarks)
       IN  /\ reqBody' = [reqBody EXCEPT !.bookmarks = r.bookmarks]
           /\ normalized' = r.normalized
           /\ printedOutline' = r.printedOutline
           /\ hist' = [hist EXCEPT !.op = "serialize",
                                   !.runs = @ + 1,
                                   !.first = IF hist.runs = 0 THEN r.printedOutline
                                             ELSE @]
    /\ UNCHANGED <<appVars, uploadDir, nextFile, awaiting, response, finishing,
                   keepAfterProcess>>

SerNext == Serialize

SerSpec == SerInit /\ [][SerNext]_vars

-----------------------------------------------------------------------------
(* The serializer over the forests of the editor: every node passed the      *)
(* validation of saveModal or the import (a title that is a string, an       *)
(* integer page >= 1), deeper and wider than the arrays of SerSpec; and over *)
(* two arrays with a title that is no string                                 *)

\* such a forest holds at most MaxValid nodes
MaxValid == 4

ValidLabels ==
    { [title |-> <<"a">>, page |-> NumberPage(1)],
      [title |-> <<"b">>, page |-> NumberPage(12)] }

RECURSIVE ValidUpTo(_)
ValidUpTo(n) ==
    IF n = 0 THEN {<<>>}
    ELSE LET first == { [title |-> l.title, page |-> l.page, children |-> c] :
                            l \in ValidLabels, c \in ValidUpTo(n - 1) }
         IN  {<<>>} \cup UNION { { <<t>> \o rest :
                                     rest \in ValidUpTo(n - PayloadSize(<<t>>)) } :
                                 t \in first }

\* a root whose title is a number, and a root with such a child
IllFormed ==
    { << [title |-> NotAString, page |-> NumberPage(1), children |-> <<>>] >>,
      << [title |-> <<"a">>, page |-> NumberPage(1), children |->
           << [title |-> NotAString, page |-> NumberPage(1), children |-> <<>>] >>] >> }

TotalInit ==
    /\ AppInit
    /\ uploadDir = {}
    /\ nextFile = 1
    /\ \E items \in ValidUpTo(MaxValid) \cup IllFormed :
          /\ reqBody = [id |-> 0, bookmarks |-> ArrayOf(items)]
          /\ hist = [NoHist EXCEPT !.sent = ArrayOf(items)]
    /\ normalized = <<>>
    /\ printedOutline = <<>>
    /\ awaiting = FALSE
    /\ response = NoResponse
    /\ finishing = {}
    /\ keepAfterProcess = FALSE

TotalSpec == TotalInit /\ [][SerNext]_vars

-----------------------------------------------------------------------------
(* The server: /api/upload and /api/process over the files of uploads/.  A   *)
(* file is [name, bytes]; the name <n>.pdf of an upload is [base |-> n,      *)
(* outlined |-> FALSE], <n>-outlined.pdf is [base |-> n, outlined |-> TRUE]. *)
(* Bytes are the document they are a copy of and the outline embedded.       *)

\* multer hands out at most MaxFiles file names in a behaviour
MaxFiles == 2

UploadName(n) == [base |-> n, outlined |-> FALSE]
\* path.join(uploadDir, `${path.parse(id).name}-outlined.pdf`)
SavePath(n) == [base |-> n, outlined |-> TRUE]

\* the bytes multer stored for upload n
UploadedBytes(n) == [kind |-> "pdf", doc |-> n, embedded |-> FALSE, outline |-> <<>>]
\* what outlinePdf({loadPath, savePath, outline}) writes to savePath
outlinePdf(bytes, outline) ==
    [kind |-> "pdf", doc |-> bytes.doc, embedded |-> TRUE, outline |-> outline]
\* res.status(code).json({error: ...}) and res.json({id: ...})
JsonBody(n) == [kind |-> "json", doc |-> n, embedded |-> FALSE, outline |-> <<>>]

\* fs.existsSync and fs.readFileSync
existsSync(name) == \E f \in uploadDir : f.name = name
readFileSync(name) == (CHOOSE f \in uploadDir : f.name = name).bytes

\* the bookmarks a client sends with a request: no array, the empty array, a
\* single node, and a nested forest out of page order
SrvPayloads ==
    { NotArray,
      ArrayOf(<<>>),
      ArrayOf(<< [title |-> <<>>, page |-> NumberPage(1), children |-> <<>>] >>),
      ArrayOf(<< [title |-> <<"b">>, page |-> NumberPage(2), children |->
                   << [title |-> <<"a", "\n">>, page |-> AbsentPage,
                       children |-> <<>>] >>],
                 [title |-> <<"a">>, page |-> NumberPage(1), children |-> <<>>] >>) }

SrvInit ==
    /\ AppInit
    /\ uploadDir = {}
    /\ nextFile = 1
    /\ reqBody = NoRequest
    /\ normalized = <<>>
    /\ printedOutline = <<>>
    /\ awaiting = FALSE
    /\ response = NoResponse
    /\ finishing = {}
    /\ keepAfterProcess \in BOOLEAN
    /\ hist = NoHist

\* POST /api/upload
ApiUpload(hasFile) ==
    /\ IF ~hasFile
       THEN /\ response' = [status |-> 400, body |-> JsonBody(0)]
            /\ UNCHANGED <<uploadDir, nextFile>>
       ELSE /\ nextFile <= MaxFiles
            /\ uploadDir' = uploadDir \cup
                   {[name |-> UploadName(nextFile), bytes |-> UploadedBytes(nextFile)]}
            /\ nextFile' = nextFile + 1
            /\ response' = [status |-> 200, body |-> JsonBody(nextFile)]
    /\ hist' = [NoHist EXCEPT !.op = "upload", !.cleaned = hist.cleaned]
    /\ UNCHANGED <<appVars, reqBody, normalized, printedOutline, awaiting,
                   finishing, keepAfterProcess>>

\* a plausible slip: the test of the descriptor is left out
returnsOriginalNever(printed) == FALSE

\* if (!printedOutline): the original is returned
returnsOriginal(printed) == printed = <<>>

\* POST /api/process with body {id, bookmarks}, up to its response or to the
\* await of outlinePdf; id 0 is a missing id
ApiProcess(id, bookmarks) ==
    /\ ~awaiting
    /\ LET filePath == UploadName(id)
           r        == serialize(bookmarks)
       IN  IF id = 0
           THEN /\ response' = [status |-> 400, body |-> JsonBody(0)]
                /\ reqBody' = [id |-> id, bookmarks |-> bookmarks]
                /\ hist' = [NoHist EXCEPT !.op = "process", !.cleaned = hist.cleaned,
                                  !.after = filePath \in hist.cleaned, !.sent = bookmarks]
                /\ UNCHANGED <<normalized, printedOutline, awaiting, finishing>>
           ELSE IF ~existsSync(filePath)
           THEN /\ response' = [status |-> 404, body |-> JsonBody(0)]
                /\ reqBody' = [id |-> id, bookmarks |-> bookmarks]
                /\ hist' = [NoHist EXCEPT !.op = "process", !.cleaned = hist.cleaned,
                                  !.after = filePath \in hist.cleaned, !.sent = bookmarks]
                /\ UNCHANGED <<normalized, printedOutline, awaiting, finishing>>
           ELSE /\ reqBody' = [id |-> id, bookmarks |-> r.bookmarks]
                /\ normalized' = r.normalized
                /\ printedOutline' = r.printedOutline
                /\ IF r.printedOutline = Thrown
                   THEN /\ response' = [status |-> 500, body |-> JsonBody(0)]
                        /\ hist' = [NoHist EXCEPT !.op = "process", !.cleaned = hist.cleaned,
                                  !.after = filePath \in hist.cleaned, !.sent = bookmarks,
                                                  !.existed = TRUE]
                        /\ UNCHANGED <<awaiting, finishing>>
                   ELSE IF returnsOriginal(r.printedOutline)
                   THEN /\ response' = [status |-> 200, body |-> readFileSync(filePath)]
                        /\ finishing' = IF keepAfterProcess THEN finishing
                                        ELSE finishing \cup {{filePath}}
                        /\ hist' = [NoHist EXCEPT !.op = "process", !.cleaned = hist.cleaned,
                                  !.after = filePath \in hist.cleaned, !.sent = bookmarks,
                                                  !.existed = TRUE]
                        /\ UNCHANGED awaiting
                   ELSE /\ awaiting' = TRUE
                        /\ response' = NoResponse
                        /\ hist' = [NoHist EXCEPT !.op = "process", !.cleaned = hist.cleaned,
                                  !.after = filePath \in hist.cleaned, !.sent = bookmarks,
                                                  !.existed = TRUE,
                                                  !.calls = <<r.printedOutline>>]
                        /\ UNCHANGED finishing
    /\ UNCHANGED <<appVars, uploadDir, nextFile, keepAfterProcess>>

\* /api/process after the await: outlinePdf read loadPath and wrote savePath;
\* the outlined file is read and sent
OutlineDone ==
    /\ awaiting
    /\ existsSync(UploadName(reqBody.id))
    /\ LET filePath == UploadName(reqBody.id)
           savePath == SavePath(reqBody.id)
           written  == outlinePdf(readFileSync(filePath), printedOutline)
       IN  /\ uploadDir' = {f \in uploadDir : f.name # savePath}
                           \cup {[name |-> savePath, bytes |-> written]}
           /\ response' = [status |-> 200, body |-> written]
           /\ finishing' = IF keepAfterProcess THEN finishing
                           ELSE finishing \cup {{savePath, filePath}}
    /\ awaiting' = FALSE
    /\ UNCHANGED <<appVars, nextFile, reqBody, normalized, printedOutline,
                   keepAfterProcess, hist>>

\* /api/process after the await: outlinePdf rejected (it found no file at
\* loadPath, or did not accept the document or the outline); the catch block
\* answers 500
OutlineFail ==
    /\ awaiting
    /\ awaiting' = FALSE
    /\ response' = [status |-> 500, body |-> JsonBody(0)]
    /\ UNCHANGED <<appVars, uploadDir, nextFile, reqBody, normalized,
                   printedOutline, finishing, keepAfterProcess, hist>>

\* a plausible slip: the test of existsSync the wrong way round
safeUnlinkMissing(dir, name) ==
    IF ~(\E f \in dir : f.name = name) THEN {f \in dir : f.name # name} ELSE dir

\* safeUnlink(filePath): the files of uploads/ after it
safeUnlink(dir, name) ==
    IF \E f \in dir : f.name = name THEN {f \in dir : f.name # name} ELSE dir

\* the callback of 'finish': safeUnlink of each of its paths
RECURSIVE unlinkEach(_, _)
unlinkEach(dir, paths) ==
    IF paths = {} THEN dir
    ELSE LET name == CHOOSE x \in paths : TRUE
         IN  unlinkEach(safeUnlink(dir, name), paths \ {name})

\* the 'finish' event of a response: the callback registered for it runs
Finish(paths) ==
    /\ paths \in finishing
    /\ finishing' = finishing \ {paths}
    /\ uploadDir' = unlinkEach(uploadDir, paths)
    /\ hist' = [hist EXCEPT !.cleaned = @ \cup paths]
    /\ UNCHANGED <<appVars, nextFile, reqBody, normalized, printedOutline,
                   awaiting, response, keepAfterProcess>>

SrvNext ==
    \/ \E hasFile \in BOOLEAN : ApiUpload(hasFile)
    \/ \E id \in 0..MaxFiles, b \in SrvPayloads : ApiProcess(id, b)
    \/ OutlineDone
    \/ OutlineFail
    \/ \E paths \in finishing : Finish(paths)

SrvSpec == SrvInit /\ [][SrvNext]_vars

-----------------------------------------------------------------------------
(* C1 *)

\* C1: the outline import is applied only when the Forest is empty at the
\* moment it is applied: a step that finishes an import while the Forest has
\* a node leaves the Forest as it is.
C1_ImportOnlyIntoEmptyForest ==
    [][\A d \in Docs : (ImportFinish(d) /\ tree # <<>>) => tree' = tree]_vars

-----------------------------------------------------------------------------
(* C2 *)

SaveOps == {"addRoot", "addChild", "edit"}

\* C2: a commit whose title is blank, whose page does not parse to an integer
\* >= 1 or whose page exceeds the known page count is rejected: the Forest is
\* as before, the form is still open and an error is reported.  An accepted
\* commit closes the form, and the node it writes carries the trimmed,
\* non-empty title and the parsed page, an integer >= 1.
C2_ValidationGate ==
    lastOp.op \in SaveOps =>
        IF ~lastOp.valid
        THEN FlatTree = lastOp.expect /\ modalOpen /\ toast.type = "error"
        ELSE /\ ~modalOpen
             /\ FlatTree = lastOp.expect
             /\ \A i \in 1..Len(FlatTree) :
                    /\ FlatTree[i].title # <<>>
                    /\ FlatTree[i].title = RefTrim(FlatTree[i].title)
                    /\ FlatTree[i].page \in Nat \ {0}

\* C2 witness: a commit was rejected while the Forest holds a node and the
\* page count is known, and the form is still open
C2_Witness ==
    /\ lastOp.op \in SaveOps
    /\ ~lastOp.valid
    /\ toast.type = "error"
    /\ modalOpen
    /\ numPages # 0
    /\ tree # <<>>

-----------------------------------------------------------------------------
(* C3 *)

IdOps == {"addChild", "edit", "removeNode"}

\* C3: insertChild, edit and remove with an id that is not in the Forest are
\* no-ops: the Forest has the same nodes, titles, pages, ids and sibling
\* order as before the operation.
C3_AbsentIdIsNoOp ==
    (lastOp.op \in IdOps /\ ~lastOp.found) => FlatTree = lastOp.expect

\* C3 witness: a valid add-child commit named a parent that is not in the
\* Forest, and the Forest holds nodes
C3_Witness ==
    /\ lastOp.op = "addChild"
    /\ lastOp.valid
    /\ ~lastOp.found
    /\ tree # <<>>

-----------------------------------------------------------------------------
(* C4 *)

\* C4: an insertChild, edit or remove that names an id absent from the Forest
\* is reported to the user as a failure, never as a success.
C4_AbsentIdReportedAsFailure ==
    (lastOp.op \in IdOps /\ lastOp.valid /\ ~lastOp.found) => toast.type = "error"

-----------------------------------------------------------------------------
(* C5 *)

\* C5: remove(id) detaches exactly the node with that id and its whole
\* subtree, root or nested; no descendant is promoted and every other node
\* keeps its parent, title, page, id and relative order.
C5_RemoveDetachesSubtree ==
    (lastOp.op = "removeNode" /\ lastOp.found) =>
        /\ FlatTree = lastOp.expect
        /\ lastOp.size >= 1

\* C5 witness: a nested node with a descendant was removed and other nodes
\* remain
C5_Witness ==
    /\ lastOp.op = "removeNode"
    /\ lastOp.found
    /\ lastOp.nested
    /\ lastOp.size >= 2
    /\ tree # <<>>

-----------------------------------------------------------------------------
(* C6 *)

\* C6: edit(id, title, page) changes only the title and the page of the node
\* with that id; its id and children and every other node are unchanged.
C6_EditChangesOnlyItsNode ==
    (lastOp.op = "edit" /\ lastOp.valid) => FlatTree = lastOp.expect

\* C6 witness: the edited node is the child the latest insertChild created
\* (it carries the id handed out last), and it has a sibling
C6_Witness ==
    /\ lastOp.op = "edit"
    /\ lastOp.valid
    /\ lastOp.found
    /\ storeOnly
    /\ editingId = nextId - 1
    /\ \E i, j \in 1..Len(FlatTree) :
          /\ FlatTree[i].id = editingId
          /\ FlatTree[i].parent # 0
          /\ i # j
          /\ FlatTree[j].parent = FlatTree[i].parent

-----------------------------------------------------------------------------
(* C7 *)

\* C7: insertRoot appends the new node as the last root, insertChild appends
\* it as the last child of the node with id parentId wherever that node sits;
\* the new node has no children and the nodes that existed are unchanged.
C7_InsertAppends ==
    (lastOp.op \in {"addRoot", "addChild"} /\ lastOp.valid /\ lastOp.found) =>
        /\ FlatTree = lastOp.expect
        /\ \A i \in 1..Len(FlatTree) : FlatTree[i].parent # nextId - 1

\* C7 witness: a child was added to a parent that already had a child
C7_Witness ==
    /\ lastOp.op = "addChild"
    /\ lastOp.valid
    /\ lastOp.found
    /\ \E i, j \in 1..Len(FlatTree) :
          /\ FlatTree[j].id = nextId - 1
          /\ FlatTree[j].parent # 0
          /\ i < j
          /\ FlatTree[i].parent = FlatTree[j].parent

-----------------------------------------------------------------------------
(* C8 *)

\* C8: after any sequence of insertRoot, insertChild and remove from an empty
\* Forest, the number of nodes is the number of successful inserts minus the
\* total size of the subtrees removed.
C8_CountIsInsertsMinusRemoved ==
    storeOnly => NodeCount(FlatTree) = balance

\* C8 witness: a remove has just detached a subtree of two or more nodes
\* from a Forest built by inserts alone, and a node remains
C8_Witness ==
    /\ storeOnly
    /\ lastOp.op = "removeNode"
    /\ lastOp.size >= 2
    /\ balance >= 1

-----------------------------------------------------------------------------
(* C9 *)

\* C9: in every reachable state every node of the Forest has an integer
\* page >= 1.
C9_PagesArePositive ==
    \A i \in 1..Len(FlatTree) : FlatTree[i].page \in Nat /\ FlatTree[i].page >= 1

\* C9 witness: an import has stored a node whose destination did not resolve
C9_Witness ==
    /\ lastOp.op = "import"
    /\ lastOp.valid
    /\ \E i \in 1..Len(FlatTree) :
          FlatTree[i].title = Untitled /\ FlatTree[i].page = 1

-----------------------------------------------------------------------------
(* C10 *)

\* C10: in every reachable state no two nodes of the Forest have the same
\* id, given that the id generator returns a fresh value on each call.
C10_IdsAreUnique ==
    \A i, j \in 1..Len(FlatTree) : i # j => FlatTree[i].id # FlatTree[j].id

\* C10 witness: the Forest holds imported nodes and a node the user added
C10_Witness ==
    /\ ~storeOnly
    /\ lastOp.op \in {"addRoot", "addChild"}
    /\ lastOp.valid
    /\ lastOp.found
    /\ NodeCount(FlatTree) >= 3

-----------------------------------------------------------------------------
(* Reference notions for the serializer *)

\* the page is absent or a string (the string pages of the model are no
\* numerals)
RefNoNumber(page) == page.null \/ "text" \in DOMAIN page

\* the page of a payload node as a number, a page that is no number counting
\* as 0
RefKey(n) == IF RefNoNumber(n.page) THEN 0 ELSE n.page.val

\* the nodes of s in ascending order of the keys, the nodes of one key in the
\* order they have in s
RECURSIVE RefByKeys(_, _)
RefByKeys(s, keys) ==
    IF keys = {} THEN <<>>
    ELSE LET k == CHOOSE x \in keys : \A y \in keys : x <= y
         IN  SelectSeq(s, LAMBDA n : RefKey(n) = k) \o RefByKeys(s, keys \ {k})

RefStable(s) == RefByKeys(s, {RefKey(s[i]) : i \in 1..Len(s)})

\* the forest with the siblings of every level in that order
RECURSIVE RefNormalize(_)
RECURSIVE RefNormalizeEach(_)
RefNormalizeEach(s) ==
    IF s = <<>> THEN <<>>
    ELSE <<[Head(s) EXCEPT !.children = RefNormalize(@)]>> \o RefNormalizeEach(Tail(s))

RefNormalize(nodes) == RefNormalizeEach(RefStable(nodes))

-----------------------------------------------------------------------------
(* C11 *)

\* C11: the Serializer orders the siblings of every level (the roots and,
\* recursively, the children of each node) by ascending numeric page, and
\* siblings of equal page keep the relative order they had in the input.
C11_StableSortAtEveryLevel ==
    hist.op = "serialize" => normalized = RefNormalize(hist.sent.items)

\* C11 witness: the input had two roots of one page and different titles, in
\* front of a root of a smaller page, and was serialized
C11_Witness ==
    /\ hist.op = "serialize"
    /\ LET in == hist.sent.items
       IN  /\ Len(in) = 3
           /\ RefKey(in[1]) = RefKey(in[2])
           /\ in[1].title # in[2].title
           /\ RefKey(in[3]) < RefKey(in[1])
           /\ normalized = <<in[3], in[1], in[2]>>

-----------------------------------------------------------------------------
(* C12 *)

\* the lines of a descriptor: the text between its newline characters
RECURSIVE RefSplit(_)
RefSplit(s) ==
    LET nl == {i \in 1..Len(s) : s[i] = "\n"}
    IN  IF nl = {} THEN <<s>>
        ELSE LET k == CHOOSE i \in nl : \A j \in nl : i <= j
             IN  <<SubSeq(s, 1, k - 1)>> \o RefSplit(SubSeq(s, k + 1, Len(s)))

\* the nodes of a forest in pre-order, each with its depth
RECURSIVE RefPre(_, _)
RefPre(nodes, depth) ==
    IF nodes = <<>> THEN <<>>
    ELSE <<[page |-> Head(nodes).page, title |-> Head(nodes).title, depth |-> depth]>>
         \o RefPre(Head(nodes).children, depth + 1)
         \o RefPre(Tail(nodes), depth)

\* the positions of the first two bars of a line
RefBars(line) == {i \in 1..Len(line) : line[i] = "|"}
RefBar1(line) == CHOOSE i \in RefBars(line) : \A j \in RefBars(line) : i <= j
RefBar2(line) ==
    CHOOSE i \in RefBars(line) \ {RefBar1(line)} :
        \A j \in RefBars(line) \ {RefBar1(line)} : i <= j
\* the three fields of a line <page>|<dashes>|<title>
RefPageField(line)  == SubSeq(line, 1, RefBar1(line) - 1)
RefDashField(line)  == SubSeq(line, RefBar1(line) + 1, RefBar2(line) - 1)
RefTitleField(line) == SubSeq(line, RefBar2(line) + 1, Len(line))

\* a title with a space for every newline
RefSpaced(t) == [i \in 1..Len(t) |-> IF t[i] = "\n" THEN " " ELSE t[i]]

\* C12: the descriptor lists the nodes of the sorted forest in pre-order, one
\* line each, and the dash run of a node's line is as long as the node is
\* deep (none for a root); a node of page n >= 1 has the numeral of n in front
\* of the first bar.
C12_PreOrderWithDepthDashes ==
    (hist.op = "serialize" /\ normalized # <<>>) =>
        LET lines == RefSplit(printedOutline)
            pre   == RefPre(normalized, 0)
        IN  /\ Len(lines) = Len(pre)
            /\ \A i \in 1..Len(pre) :
                  /\ Cardinality(RefBars(lines[i])) >= 2
                  /\ Len(RefDashField(lines[i])) = pre[i].depth
                  /\ \A k \in 1..pre[i].depth : RefDashField(lines[i])[k] = "-"
                  /\ RefTitleField(lines[i]) = RefSpaced(pre[i].title)
                  /\ (~pre[i].page.null /\ pre[i].page.val >= 1) =>
                         RefPageField(lines[i]) = Decimal(pre[i].page.val)

\* C12 witness: a root of page 1 with a child of page 2 ("b") that has a
\* child of page 2 ("a") is printed as the lines 1||, 2|-|b and 2|--|a
C12_Witness ==
    /\ hist.op = "serialize"
    /\ hist.sent.items =
          << [title |-> <<>>, page |-> NumberPage(1), children |->
               << [title |-> <<"b">>, page |-> NumberPage(2), children |->
                    << [title |-> <<"a">>, page |-> NumberPage(2),
                        children |-> <<>>] >>] >>] >>
    /\ printedOutline = << "1", "|", "|", "\n",
                           "2", "|", "-", "|", "b", "\n",
                           "2", "|", "-", "-", "|", "a" >>

-----------------------------------------------------------------------------
(* C13 *)

\* C13: the descriptor is the empty string if and only if the submitted forest
\* is empty.
C13_EmptyDescriptorIffEmptyForest ==
    (hist.op = "serialize" /\ hist.sent.array) =>
        (printedOutline = <<>> <=> hist.sent.items = <<>>)

\* C13 witness: a single node with the empty title and page 1 is printed as
\* the descriptor 1||
C13_Witness ==
    /\ hist.op = "serialize"
    /\ hist.sent.items = << [title |-> <<>>, page |-> NumberPage(1),
                             children |-> <<>>] >>
    /\ printedOutline = <<"1", "|", "|">>

-----------------------------------------------------------------------------
(* C14 *)

-----------------------------------------------------------------------------
(* C15 *)

RefDigits == {"0", "1", "2", "3", "4", "5", "6", "7", "8", "9"}

\* C15: every line of every descriptor has the form <page>|<dashes>|<title>
\* with <page> a non-negative decimal integer (digits only), for every payload
\* whose pages are integers (zero and negative ones included) or absent.
C15_PageFieldIsDigitsOnly ==
    (hist.op = "serialize" /\ normalized # <<>>) =>
        LET lines == RefSplit(printedOutline)
        IN  \A i \in 1..Len(lines) :
               /\ Cardinality(RefBars(lines[i])) >= 2
               /\ RefPageField(lines[i]) # <<>>
               /\ \A k \in 1..Len(RefPageField(lines[i])) :
                      RefPageField(lines[i])[k] \in RefDigits

-----------------------------------------------------------------------------
(* C16 *)

\* C16: every newline of a title is replaced by one space before the line is
\* emitted, so the descriptor has exactly one line per node of the forest.
C16_OneLinePerNode ==
    (hist.op = "serialize" /\ hist.sent.items # <<>>) =>
        LET lines == RefSplit(printedOutline)
            pre   == RefPre(normalized, 0)
        IN  /\ Len(lines) = Len(RefPre(hist.sent.items, 0))
            /\ \A i \in 1..Len(lines) :
                  /\ Len(RefTitleField(lines[i])) = Len(pre[i].title)
                  /\ \A k \in 1..Len(pre[i].title) :
                        RefTitleField(lines[i])[k] =
                            IF pre[i].title[k] = "\n" THEN " " ELSE pre[i].title[k]

\* C16 witness: a forest of three nodes, one of them with two newlines in its
\* title, was serialized
C16_Witness ==
    /\ hist.op = "serialize"
    /\ Len(RefPre(hist.sent.items, 0)) = 3
    /\ \E i \in 1..3 :
          LET t == RefPre(hist.sent.items, 0)[i].title
          IN  Cardinality({k \in 1..Len(t) : t[k] = "\n"}) >= 2
    /\ Len(RefSplit(printedOutline)) = 3

-----------------------------------------------------------------------------
(* C17 *)

\* the descriptor of a forest whose pages are integers >= 1 or absent: a line
\* per node of the sorted forest in pre-order, an absent page printed as 1
RefLine(e) ==
    (IF e.page.null THEN <<"1">> ELSE Decimal(e.page.val))
    \o <<"|">> \o [i \in 1..e.depth |-> "-"] \o <<"|">> \o RefSpaced(e.title)

RECURSIVE RefJoinLines(_)
RefJoinLines(pre) ==
    IF pre = <<>> THEN <<>>
    ELSE IF Len(pre) = 1 THEN RefLine(pre[1])
    ELSE RefLine(pre[1]) \o <<"\n">> \o RefJoinLines(Tail(pre))

RefDescriptor(items) == RefJoinLines(RefPre(RefNormalize(items), 0))

\* C17: /api/process for the id of an existing file returns the uploaded bytes
\* and never calls the embedding step when the bookmarks are empty or no
\* array; with a non-empty bookmarks list it calls the embedding step exactly
\* once, with the serialized descriptor, and what it returns with status 200 is
\* the embedded result (500 when the embedding step failed).
C17_ProcessEmbedsOnceOrReturnsOriginal ==
    (hist.op = "process" /\ hist.existed) =>
        IF ~hist.sent.array \/ hist.sent.items = <<>>
        THEN /\ hist.calls = <<>>
             /\ ~awaiting
             /\ response = [status |-> 200,
                            body |-> [kind |-> "pdf", doc |-> reqBody.id,
                                      embedded |-> FALSE, outline |-> <<>>]]
        ELSE /\ hist.calls = <<RefDescriptor(hist.sent.items)>>
             /\ IF awaiting THEN response = NoResponse
                ELSE \/ response.status = 500
                     \/ response = [status |-> 200,
                                    body |-> [kind |-> "pdf", doc |-> reqBody.id,
                                              embedded |-> TRUE,
                                              outline |-> RefDescriptor(hist.sent.items)]]

\* C17 witness: a nested forest out of page order was sent for an existing
\* file and the response carries the document with its descriptor embedded
C17_Witness ==
    /\ hist.op = "process"
    /\ hist.existed
    /\ Len(hist.sent.items) = 2
    /\ ~awaiting
    /\ response.status = 200
    /\ response.body.embedded
    /\ response.body.outline = << "1", "|", "|", "a", "\n",
                                  "2", "|", "|", "b", "\n",
                                  "1", "|", "-", "|", "a", " " >>

-----------------------------------------------------------------------------
(* Reference notions for the import *)

RECURSIVE RefOutSize(_)
RefOutSize(items) ==
    IF items = <<>> THEN 0
    ELSE 1 + RefOutSize(Head(items).items) + RefOutSize(Tail(items))

\* the items of an outline in pre-order, each with the position of its parent
\* in the listing (0 for a top-level item); pos is the position of Head(items)
RECURSIVE RefOutline(_, _, _)
RefOutline(items, parentPos, pos) ==
    IF items = <<>> THEN <<>>
    ELSE <<[title |-> Head(items).title, dest |-> Head(items).dest,
            parent |-> parentPos]>>
         \o RefOutline(Head(items).items, pos, pos + 1)
         \o RefOutline(Tail(items), parentPos, pos + 1 + RefOutSize(Head(items).items))

\* the pages a dest of document d resolves to: none when the dest is absent,
\* its name is not defined, its reference is no object or a lookup throws
RefResolved(d, dest) ==
    LET targets == IF dest.kind = "explicit" THEN {dest}
                   ELSE IF dest.kind = "named" /\ ~GetDestination(d, dest.name).throws
                   THEN {GetDestination(d, dest.name).dest}
                   ELSE {}
        good    == {t \in targets : t.kind = "explicit" /\ t.ref # 0
                                    /\ ~GetPageIndex(d, t.ref).throws}
    IN  {GetPageIndex(d, t.ref).idx + 1 : t \in good}

\* the page of an imported item: the resolved page when it lies in
\* [1, numPages], 1 otherwise
RefImportPage(d, dest) ==
    LET ok == RefResolved(d, dest) \cap (1..NumPagesOf(d))
    IN  IF ok = {} THEN 1 ELSE CHOOSE p \in ok : TRUE

\* the title of an imported item
RefImportTitle(t) == IF IsBlank(t) THEN Untitled ELSE RefTrim(t)

-----------------------------------------------------------------------------
(* C18 *)

\* C18: an item whose destination is absent, does not resolve or whose lookup
\* throws is imported with page 1 at any depth, a resolved page outside
\* [1, numPages] is replaced by 1, and the failure of an item does not stop
\* the import of its siblings and descendants.
C18_ImportPageDefaultsToOne ==
    (lastOp.op = "import" /\ lastOp.valid) =>
        LET out == RefOutline(OutlineOf(lastOp.doc), 0, 1)
        IN  /\ Len(FlatTree) = Len(out)
            /\ \A i \in 1..Len(out) :
                  FlatTree[i].page = RefImportPage(lastOp.doc, out[i].dest)

\* C18 witness: the chain of document 3 (a name whose lookup throws, below it
\* a page whose lookup throws, below it a page past the end) was imported,
\* three nodes of page 1
C18_Witness ==
    /\ lastOp.op = "import"
    /\ lastOp.valid
    /\ lastOp.doc = 3
    /\ Len(FlatTree) = 3
    /\ FlatTree[3].parent = FlatTree[2].id
    /\ FlatTree[2].parent = FlatTree[1].id
    /\ \A i \in 1..3 : FlatTree[i].page = 1

-----------------------------------------------------------------------------
(* C19 *)

\* C19: the imported Forest has the shape of the outline: a node per item,
\* the same nesting and the same sibling order (no sorting), each title
\* trimmed, "Untitled" in place of an absent, empty or blank title; an
\* outline without items leaves the Forest as it was.
C19_ImportKeepsShape ==
    lastOp.op = "import" =>
        IF OutlineOf(lastOp.doc) = <<>>
        THEN ~lastOp.valid /\ FlatTree = lastOp.expect
        ELSE LET out == RefOutline(OutlineOf(lastOp.doc), 0, 1)
             IN  /\ lastOp.valid
                 /\ Len(FlatTree) = Len(out)
                 /\ \A i \in 1..Len(out) :
                       /\ FlatTree[i].title = RefImportTitle(out[i].title)
                       /\ FlatTree[i].parent =
                              IF out[i].parent = 0 THEN 0
                              ELSE FlatTree[out[i].parent].id

\* C19 witness: the three siblings of document 4 were imported in the order
\* of the outline, pages 3, 1, 1, the second title trimmed and the third
\* "Untitled"
C19_Witness ==
    /\ lastOp.op = "import"
    /\ lastOp.doc = 4
    /\ Len(FlatTree) = 3
    /\ \A i \in 1..3 : FlatTree[i].parent = 0
    /\ FlatTree[1].title = <<"b">> /\ FlatTree[1].page = 3
    /\ FlatTree[2].title = <<"a">> /\ FlatTree[2].page = 1
    /\ FlatTree[3].title = Untitled /\ FlatTree[3].page = 1

-----------------------------------------------------------------------------
(* C20 *)

\* C20: when a new document is selected the Forest is reset to empty, and
\* from then on it holds only nodes of the new document: an import started
\* for the previous document that completes after the selection does not put
\* the bookmarks of the previous document into the Forest.
C20_NoImportFromPreviousDocument ==
    /\ lastOp.op = "uploadPdf" => tree = <<>>
    /\ (lastOp.op = "import" /\ lastOp.valid) => lastOp.doc = file

-----------------------------------------------------------------------------
(* C22 *)

\* C22: whenever the page count of the document is known (numPages is set),
\* every node of the Forest has a page within [1, numPages], also a node that
\* was committed before the page count became known.
C22_PagesWithinDocument ==
    numPages # 0 =>
        \A i \in 1..Len(FlatTree) : FlatTree[i].page \in 1..numPages

-----------------------------------------------------------------------------
(* C25 *)

\* C25: no operation of the tree store (add root, add child, edit, remove)
\* reorders siblings: the nodes that are in the Forest before and after it
\* keep their parent, and any two of them that are siblings are in the same
\* relative order as before, also when an edit gives a node a page smaller
\* than the page of an earlier sibling.
C25_StoreKeepsSiblingOrder ==
    lastOp.op \in {"addRoot", "addChild", "edit", "removeNode"} =>
        RefOrderKept(lastOp.before, FlatTree)

\* C25 witness: an edit gave the last of three siblings a page smaller than
\* the page of a sibling in front of it, and it is still the last
C25_Witness ==
    /\ lastOp.op = "edit"
    /\ RefLowered(lastOp.before, FlatTree)
    /\ Len(FlatTree) = 3
    /\ \A i \in 1..3 : FlatTree[i].parent = 0 /\ FlatTree[i].id = i
    /\ FlatTree[3].page < FlatTree[2].page

-----------------------------------------------------------------------------
(* C23 *)

RECURSIVE RefSize(_)
RefSize(nodes) ==
    IF nodes = <<>> THEN 0
    ELSE 1 + RefSize(Head(nodes).children) + RefSize(Tail(nodes))

\* the nodes of a forest in pre-order, each with the position of its parent in
\* the listing (0 for a root); pos is the position of Head(nodes)
RECURSIVE RefPreParents(_, _, _)
RefPreParents(nodes, parentPos, pos) ==
    IF nodes = <<>> THEN <<>>
    ELSE <<[page |-> Head(nodes).page, title |-> Head(nodes).title,
            parent |-> parentPos]>>
         \o RefPreParents(Head(nodes).children, pos, pos + 1)
         \o RefPreParents(Tail(nodes), parentPos, pos + 1 + RefSize(Head(nodes).children))

\* the parent the dash counts give line i: the nearest line in front of it
\* with one dash less, 0 for a line without dashes or without such a line
RefRebuiltParent(lines, i) ==
    LET d    == Len(RefDashField(lines[i]))
        cand == {j \in 1..(i - 1) : Len(RefDashField(lines[j])) = d - 1}
    IN  IF d = 0 \/ cand = {} THEN 0
        ELSE CHOOSE j \in cand : \A k \in cand : k <= j

\* the numeral of an integer
RefNumeral(n) == IF n < 0 THEN <<"-">> \o Decimal(0 - n) ELSE Decimal(n)

\* C23: the tree rebuilt from the dash counts of the lines alone (a line with
\* d dashes is a child of the nearest line in front of it with d - 1 dashes)
\* is the input forest with the siblings of every level in page order: the
\* first line has no dash, no line has more than one dash more than the line
\* in front of it, and line i is the i-th node of the sorted forest in
\* pre-order, with the parent, the page and the title of that node (the
\* title and the page as the Serializer emits them: a space for a newline, 1
\* for a page that is absent, zero or no numeral).
C23_DashCountsRebuildTheForest ==
    (hist.op = "serialize" /\ hist.sent.items # <<>>) =>
        LET lines == RefSplit(printedOutline)
            pre   == RefPreParents(RefNormalize(hist.sent.items), 0, 1)
        IN  /\ Len(lines) = Len(pre)
            /\ Len(RefDashField(lines[1])) = 0
            /\ \A i \in 2..Len(lines) :
                  Len(RefDashField(lines[i])) <= Len(RefDashField(lines[i - 1])) + 1
            /\ \A i \in 1..Len(lines) :
                  /\ RefRebuiltParent(lines, i) = pre[i].parent
                  /\ RefTitleField(lines[i]) = RefSpaced(pre[i].title)
                  /\ RefPageField(lines[i]) =
                        IF RefNoNumber(pre[i].page) \/ pre[i].page.val = 0 THEN <<"1">>
                        ELSE RefNumeral(pre[i].page.val)

\* C23 witness: the root of page 2 with a child, given in front of a root of
\* page 1, comes out behind it, and the three lines give the child its own
\* parent, now the second line
C23_Witness ==
    /\ hist.op = "serialize"
    /\ Len(hist.sent.items) = 2
    /\ hist.sent.items[1].page = NumberPage(2) /\ Len(hist.sent.items[1].children) = 1
    /\ hist.sent.items[2].page = NumberPage(1)
    /\ LET lines == RefSplit(printedOutline)
       IN  /\ Len(lines) = 3
           /\ RefRebuiltParent(lines, 1) = 0
           /\ RefRebuiltParent(lines, 2) = 0
           /\ RefRebuiltParent(lines, 3) = 2
           /\ RefPageField(lines[1]) = <<"1">>
           /\ RefPageField(lines[2]) = <<"2">>

-----------------------------------------------------------------------------
(* C24 *)

\* the sibling lists of a forest: the roots and the children of every node
RECURSIVE RefSiblingLists(_)
RefSiblingLists(nodes) ==
    {nodes} \cup UNION {RefSiblingLists(nodes[i].children) : i \in 1..Len(nodes)}

\* C24: a node whose page is missing or no numeral is sorted with the key 0:
\* in the sorted forest it is in front of every sibling of a page >= 1, also
\* of one that was in front of it in the input, and among the nodes of key 0
\* the input order is kept; yet its line carries the page 1.
C24_MissingPageSortsFirstPrintsOne ==
    (hist.op = "serialize" /\ hist.sent.items # <<>>) =>
        /\ \A sibs \in RefSiblingLists(normalized) :
              \A i \in 1..Len(sibs), j \in 1..Len(sibs) :
                 (/\ RefNoNumber(sibs[i].page)
                  /\ ~RefNoNumber(sibs[j].page)
                  /\ sibs[j].page.val >= 1) => i < j
        /\ LET lines == RefSplit(printedOutline)
               pre   == RefPre(normalized, 0)
           IN  \A i \in 1..Len(pre) :
                  RefNoNumber(pre[i].page) => RefPageField(lines[i]) = <<"1">>

\* C24 witness: a root of page 1, then a root without a page, then a root
\* whose page is the string x: the two come out in front of the root of page
\* 1, in their order, and all three lines carry the page 1
C24_Witness ==
    /\ hist.op = "serialize"
    /\ Len(hist.sent.items) = 3
    /\ hist.sent.items[1].page = NumberPage(1)
    /\ hist.sent.items[2].page = AbsentPage
    /\ hist.sent.items[3].page = StringPage(<<"x">>)
    /\ normalized = <<hist.sent.items[2], hist.sent.items[3], hist.sent.items[1]>>
    /\ printedOutline = << "1", "|", "|", "\n",
                           "1", "|", "|", "b", "\n",
                           "1", "|", "|" >>

-----------------------------------------------------------------------------
(* C27 *)

\* every node has a title that is a string, an integer page >= 1 and a list
\* of children of such nodes
RECURSIVE RefValidated(_)
RefValidated(nodes) ==
    \A i \in 1..Len(nodes) :
       /\ nodes[i].title # <<"number">>
       /\ ~RefNoNumber(nodes[i].page)
       /\ nodes[i].page.val >= 1
       /\ RefValidated(nodes[i].children)

-----------------------------------------------------------------------------
(* C29 *)

-----------------------------------------------------------------------------
(* Uploads and downloads in flight *)

\* C28: whenever fileId is set, it is the id the server returned for the
\* upload of the document selected now (file), also when a second document is
\* selected while the upload of the first is in flight.  Not so: the
\* continuation of the first upload sets fileId to its id after the second
\* document was selected.
C28_FileIdIsOfSelectedDocument ==
    fileId # 0 => uploads[fileId].doc = file

\* C30: isProcessing is true exactly while a download request is in flight,
\* it is false once a request settled, with a response or rejected, and at
\* most one request started from the button is in flight.
C30_OneDownloadInFlight ==
    /\ Len(downloads) <= 1
    /\ isProcessing <=> Len(downloads) = 1
    /\ lastOp.op \in {"downloaded", "downloadFailed"} => ~isProcessing

\* a request was rejected, isProcessing is false again and the button is
\* enabled
C30_Witness ==
    /\ lastOp.op = "downloadFailed"
    /\ ~isProcessing
    /\ downloads = <<>>
    /\ ~downloadDisabled(fileId, isProcessing)

\* the bookmarks of a request, from the listing of the Forest alone: the
\* nodes of f with the given parent from place i on, each with its children
RECURSIVE RefPayloadFrom(_, _, _)
RefPayloadFrom(f, parent, i) ==
    IF i > Len(f) THEN <<>>
    ELSE (IF f[i].parent = parent
          THEN <<[title    |-> f[i].title,
                  page     |-> [null |-> FALSE, val |-> f[i].page],
                  children |-> RefPayloadFrom(f, f[i].id, i + 1)]>>
          ELSE <<>>)
         \o RefPayloadFrom(f, parent, i + 1)

\* C21: a download request in flight carries the Forest as it was when the
\* download was started, whatever was added, edited, removed, cleared or
\* selected since, and the arrival of its result, success or failure, leaves
\* the live Forest as it was.
C21_RequestCarriesSnapshot ==
    /\ \A i \in 1..Len(downloads) :
          downloads[i].bookmarks = RefPayloadFrom(downloads[i].forest, 0, 1)
    /\ lastOp.op \in {"downloaded", "downloadFailed"} => FlatTree = lastOp.expect

\* a request was sent with one bookmark, the Forest was changed while it was
\* in flight, and its response arrived: the Forest is still the changed one
C21_Witness ==
    /\ lastOp.op = "downloaded"
    /\ Len(lastOp.before) = 1
    /\ FlatTree # lastOp.before
    /\ FlatTree # <<>>



\* every node of a payload has the fields title, page and children and no
\* other
RECURSIVE RefOnlyPayloadFields(_)
RefOnlyPayloadFields(nodes) ==
    \A i \in 1..Len(nodes) :
       /\ DOMAIN nodes[i] = {"title", "page", "children"}
       /\ RefOnlyPayloadFields(nodes[i].children)

\* the forest with other ids: the same titles, pages and shape
RECURSIVE RefRenamed(_)
RefRenamed(nodes) ==
    [i \in 1..Len(nodes) |->
        [nodes[i] EXCEPT !.id = @ + MaxStore + 1, !.children = RefRenamed(@)]]

\* C26: the ids of the nodes never reach the embedding: every node of the
\* bookmarks of a download request has a title, a page and children and
\* nothing else, and the descriptor the server makes of them is the one it
\* makes for the same Forest under other ids.
C26_IdsNeverReachEmbedding ==
    \A i \in 1..Len(downloads) :
       /\ RefOnlyPayloadFields(downloads[i].bookmarks)
       /\ serialize(ArrayOf(downloads[i].bookmarks)).printedOutline
             = serialize(ArrayOf(payloadOf(RefRenamed(tree)))).printedOutline

\* a request in flight for a Forest of two roots, the first with a child
C26_Witness ==
    /\ Len(downloads) = 1
    /\ Len(downloads[1].bookmarks) = 2
    /\ Len(downloads[1].bookmarks[1].children) = 1
    /\ {tree[1].id, tree[1].children[1].id, tree[2].id} = {1, 2, 3}
    /\ serialize(ArrayOf(downloads[1].bookmarks)).printedOutline # <<>>


====
